---------------------------- MODULE Spec2Model ----------------------------
(***************************************************************************)
(* The Cork wine cellar: the synchronisation core of class WineCellar.     *)
(*                                                                         *)
(* The revisions of the class are selected by the variable rev:            *)
(*   "firebaseOnly"  src/unnamed/part_000 (remote-authoritative listener,  *)
(*                   archive, echo-suppression flag with grace timer)      *)
(*   "unionMerge"    src/app.js lines 7-1229 (local cache + mergeWines)    *)
(*   "loginGated"    src/app.js lines 1237-2976 (the Firebase-only class   *)
(*                   with calls to a saveToLocalStorage it does not have)  *)
(*   "localOnly"     src/app.js lines 2983-4000 (local cache only)         *)
(*                                                                         *)
(* An async method is a task: a record that remembers where the method is  *)
(* suspended (pc) and the locals it captured.  One action runs a handler   *)
(* from its entry, or from the await it is suspended at, to its next       *)
(* await.  The remote store is a map from record id to record; every       *)
(* change of it is fanned out as a snapshot to the attached listener.      *)
(***************************************************************************)
EXTENDS Integers, Sequences, FiniteSets, TLC

VARIABLES
    rev,              \* which revision of the class is running
    now,              \* the wall clock read by Date.now() / new Date()
    wines,            \* this.wines
    archive,          \* this.archive
    syncInProgress,   \* this.syncInProgress
    firebaseEnabled,  \* this.firebaseEnabled
    userId,           \* this.userId
    db,               \* this.db
    currentWineId,    \* this.currentWineId
    currentArchiveId, \* this.currentArchiveId
    editMode,         \* this.editMode
    archiveRating,    \* this.archiveRating
    archiveRebuy,     \* this.archiveRebuy
    remoteWines,      \* users/<uid>/wines in the remote store: id -> record
    remoteArchive,    \* users/<uid>/archive in the remote store: id -> record
    winesEvents,      \* 'value' snapshots of the wines path not yet delivered
    archiveEvents,    \* 'value' snapshots of the archive path not yet delivered
    listening,        \* TRUE while the 'value' listeners are attached
    tasks,            \* suspended async methods and pending timers
    modal,            \* the modal dialog on top ("none" when all are closed)
    localStorage,     \* localStorage item 'wineCellar' (unionMerge revision)
    storage,          \* how localStorage.setItem answers (unionMerge revision)
    otherListener,    \* the 'value' listeners on the paths of a second user
    form,             \* the fields of the add form that populateForm fills
    apiKey,           \* this.apiKey (this.cloudFunctionsAvailable in the Firebase-only revision)
    calls,            \* calls made by the handler that ran in the last step
    audit,            \* history: what the last listener call saw, and the
                      \* confirmArchive that is running alone
    attached,         \* how many 'value' callbacks setupFirebaseListener has
                      \* attached on users/User/wines and users/User/archive
    wineQuantity      \* the value of the form's wineQuantity field, a sequence
                      \* of characters

vars == <<rev, now, wines, archive, syncInProgress, firebaseEnabled, userId, db,
          currentWineId, currentArchiveId, editMode, archiveRating, archiveRebuy,
          remoteWines, remoteArchive, winesEvents, archiveEvents, listening,
          tasks, modal, localStorage, storage, otherListener, form, apiKey, calls,
          audit, attached, wineQuantity>>

\* the label scanner's part of the state
scanner == <<form, apiKey>>

\* the fields of the add dialog
fields == <<scanner, wineQuantity>>

(***************************************************************************)
(* Bounds of the model.                                                    *)
(***************************************************************************)
MaxTime  == 2    \* the clock runs from 1 to MaxTime
MaxLen   == 2    \* longest this.wines an add or a restore extends
MaxArchive == 3  \* longest this.archive an archive-confirm extends
MaxTasks == 2    \* async methods and timers pending at the same time
MaxQueue == 1    \* undelivered snapshots per listener
MaxQuantity == 2 \* largest quantity a record is raised to

NULL == "null"   \* null / undefined / absent
NoId == 0        \* null in this.currentWineId and this.currentArchiveId
User == "u1"     \* the uid the identity provider reports
Guest == "u2"    \* the uid of a second account on the same device
AddNames == {"a"}         \* descriptive fields typed into the form of a new record
EditNames == {"b"}        \* descriptive fields typed into the form of an edit
RemoteNames == {"b"}      \* descriptive fields written by another client
ClockSkew == {0}          \* ticks between Date.now() and the later new Date()
Stars == {4}              \* ratings the archive dialog's stars set
RebuyOptions == {"yes"}   \* data-rebuy values of the rebuy buttons
NoteInputs == {"n"}       \* trimmed values of the archiveNotes field
StarValues == 1..5        \* data-rating of the five stars of the archive dialog
EndStars == {1, 5}        \* the first and the last star
RebuyValues == {"yes", "maybe", "no"}   \* data-rebuy of the three rebuy buttons
EmptyMap == << >>         \* a path with no children

\* localStorage has no item 'wineCellar'; the item is a string that is not JSON
NoItem == [item |-> "absent", json |-> << >>]

Corrupt == [item |-> "corrupt", json |-> << >>]

\* no listener is attached on the second user's paths
Detached == [listening |-> FALSE, winesEvents |-> << >>, archiveEvents |-> << >>]

\* the add form after form.reset(): every text field empty, type on its first option
BlankForm == [name |-> "", type |-> "red"]

(***************************************************************************)
(* The wineQuantity field.  Its value is a string, modelled as a sequence  *)
(* of characters; parseInt and the conversion of a number to a string are  *)
(* computed character by character.                                        *)
(***************************************************************************)
DigitChars == <<"0", "1", "2", "3", "4", "5", "6", "7", "8", "9">>

IsDigit(c) == \E d \in DOMAIN DigitChars : DigitChars[d] = c

Digit(c) == (CHOOSE d \in DOMAIN DigitChars : DigitChars[d] = c) - 1

RECURSIVE TrimStart(_)
TrimStart(str) ==
    IF str # << >> /\ Head(str) = " " THEN TrimStart(Tail(str)) ELSE str

\* the value of the longest prefix of digits
RECURSIVE DigitsValue(_, _)
DigitsValue(str, acc) ==
    IF str = << >> \/ ~IsDigit(Head(str))
    THEN acc
    ELSE DigitsValue(Tail(str), acc * 10 + Digit(Head(str)))

NaN == [nan |-> TRUE, val |-> 0]

\* parseInt(string): leading blanks are skipped, a sign is read, then digits
\* up to the first other character; NaN when no digit is there
ParseInt(str) ==
    LET trimmed == TrimStart(str)
        signed  == trimmed # << >> /\ Head(trimmed) \in {"-", "+"}
        body    == IF signed THEN Tail(trimmed) ELSE trimmed
    IN  IF body = << >> \/ ~IsDigit(Head(body))
        THEN NaN
        ELSE [nan |-> FALSE,
              val |-> IF signed /\ Head(trimmed) = "-"
                      THEN 0 - DigitsValue(body, 0)
                      ELSE DigitsValue(body, 0)]

\* `parseInt(..) || 1`: NaN and 0 are falsy
OrOne(number) == IF number.nan \/ number.val = 0 THEN 1 ELSE number.val

RECURSIVE NatText(_)
NatText(n) ==
    IF n < 10 THEN <<DigitChars[n + 1]>>
    ELSE NatText(n \div 10) \o <<DigitChars[(n % 10) + 1]>>

\* `input.value = val`: the number as a string
ToText(n) == IF n < 0 THEN <<"-">> \o NatText(0 - n) ELSE NatText(n)

\* what is typed into the field: nothing, a letter, 0, a count, a negative
\* count, a count followed by a letter
QuantityTexts == {<< >>, <<"x">>, <<"0">>, <<"2">>, <<"-", "1">>, <<"1", "x">>}


(***************************************************************************)
(* Records.  A catalog record carries its identity, one descriptive field  *)
(* (name stands for name, producer, type, ...), the quantity, the embedded *)
(* image and the creation timestamp.  An archive record is a catalog       *)
(* record plus rating, rebuy, archiveNotes and archivedAt.                 *)
(***************************************************************************)
Wine(id, name, quantity, addedAt) ==
    [id |-> id, name |-> name, quantity |-> quantity, image |-> NULL,
     addedAt |-> addedAt]

\* ids of the records of a list
Ids(list) == {list[i].id : i \in DOMAIN list}

\* Array.prototype.findIndex(w => w.id === id): the first match, or -1
FindIndex(list, id) ==
    IF id \in Ids(list)
    THEN CHOOSE i \in DOMAIN list :
             /\ list[i].id = id
             /\ \A j \in DOMAIN list : list[j].id = id => i <= j
    ELSE -1

\* Array.prototype.find(w => w.id === id) found a record
Found(list, id) == FindIndex(list, id) # -1

\* Array.prototype.find(w => w.id === id), when it finds a record
Find(list, id) == list[FindIndex(list, id)]

\* Array.prototype.filter(w => w.id !== id)
FilterOut(list, id) ==
    LET Keep(w) == w.id # id IN SelectSeq(list, Keep)

\* Object.values(data) of a snapshot value: the children in key order; a
\* null value (no children) gives [] through `data ? Object.values(data) : []`
RECURSIVE ObjectValues(_)
ObjectValues(data) ==
    IF DOMAIN data = {}
    THEN << >>
    ELSE LET k == CHOOSE k \in DOMAIN data : \A j \in DOMAIN data : k <= j
         IN  <<data[k]>> \o ObjectValues([j \in DOMAIN data \ {k} |-> data[j]])

\* winesObject of saveWinesToFirebase: forEach(wine => obj[wine.id] = wine),
\* a later record with the same id overwrites an earlier one
WinesObject(list) ==
    [k \in Ids(list) |->
        list[CHOOSE i \in DOMAIN list :
                 /\ list[i].id = k
                 /\ \A j \in DOMAIN list : list[j].id = k => j <= i]]

\* ref(path/<id>).set(record) and ref(path/<id>).remove() applied to a path
SetChild(data, rec) ==
    [k \in DOMAIN data \cup {rec.id} |-> IF k = rec.id THEN rec ELSE data[k]]

RemoveChild(data, id) == [k \in DOMAIN data \ {id} |-> data[k]]

(***************************************************************************)
(* The comparator of the sorts, (a, b) => new Date(b[key]) - new Date(a[key]) *)
(* and Array.prototype.sort, which is stable: an element is moved in front *)
(* of another only when the comparator says it sorts before it.            *)
(***************************************************************************)
CompareDesc(a, b, key) == b[key] - a[key]

\* variant: an insertion that puts an element in front of its equals
RECURSIVE InsertFirst(_, _, _)
InsertFirst(sorted, x, key) ==
    IF sorted = << >>
    THEN <<x>>
    ELSE IF CompareDesc(Head(sorted), x, key) < 0
         THEN <<Head(sorted)>> \o InsertFirst(Tail(sorted), x, key)
         ELSE <<x>> \o sorted

RECURSIVE Insert(_, _, _)
Insert(sorted, x, key) ==
    IF sorted = << >>
    THEN <<x>>
    ELSE IF CompareDesc(Head(sorted), x, key) <= 0
         THEN <<Head(sorted)>> \o Insert(Tail(sorted), x, key)
         ELSE <<x>> \o sorted

RECURSIVE Sort(_, _)
Sort(list, key) ==
    IF list = << >>
    THEN << >>
    ELSE Insert(Sort(SubSeq(list, 1, Len(list) - 1), key), list[Len(list)], key)


(***************************************************************************)
(* Tasks, snapshots and the call log.                                      *)
(*                                                                         *)
(* Every task carries the history field quiet: TRUE as long as no other    *)
(* local mutation has started or been pending since the task started.      *)
(***************************************************************************)
RemoveAt(seq, i) == SubSeq(seq, 1, i - 1) \o SubSeq(seq, i + 1, Len(seq))

\* a suspended async method: the method, the await it is suspended at, the
\* record id and the payload it captured
Task(op, pc, id, data) ==
    [op |-> op, pc |-> pc, id |-> id, data |-> data, quiet |-> FALSE]

Disturb(ts) == [i \in DOMAIN ts |-> [ts[i] EXCEPT !.quiet = FALSE]]

Spawn(ts, t) == Disturb(ts) \o <<[t EXCEPT !.quiet = (ts = << >>)]>>

\* the remote store fans a changed path out to the attached listener
Fanout(queue, data) == IF listening THEN Append(queue, data) ELSE queue

Room(queue) == listening => Len(queue) < MaxQueue

\* one entry of the call log: the function or remote call, the value of
\* syncInProgress when it was made, and the id of the record it is about
Call(fn, gate, id) == [fn |-> fn, gate |-> gate, id |-> id]

Render == Call("renderWineList", FALSE, NoId)

\* variant: remote helpers without their guard
RemoteReadyUnguarded == TRUE

\* `!this.firebaseEnabled || !this.db || !this.userId` is false
RemoteReady == firebaseEnabled /\ db # NULL /\ userId # NULL

\* the history variable audit is dropped by every step that is neither a
\* listener call nor a step of the confirmArchive it follows
Idle == [on |-> FALSE, op |-> "none"]

\* ref.off() without arguments removes every callback at the location;
\* ref.on('value', cb) adds one
OffKept(n) == n

Off(n) == 0

On(n) == n + 1

NoListeners == [wines |-> 0, archive |-> 0]

\* the callbacks attached when the Firebase-only class is listening
AttachedAt(r, l) ==
    IF r = "firebaseOnly" /\ l THEN [wines |-> 1, archive |-> 1] ELSE NoListeners

NoAudit == audit' = Idle

\* what a 'value' callback saw when it was called: the flag, both lists and
\* the snapshot value
Heard(op, data) ==
    [on |-> FALSE, op |-> op, gate |-> syncInProgress, wines |-> wines,
     archive |-> archive, data |-> data]

(***************************************************************************)
(* Construction and the identity provider (initFirebase).                  *)
(***************************************************************************)
Init ==
    /\ rev = "firebaseOnly"
    /\ now = 1
    /\ wines = << >>
    /\ archive = << >>
    /\ syncInProgress = FALSE
    /\ firebaseEnabled = FALSE
    /\ userId = NULL
    /\ db \in {"db", NULL}        \* CONFIG.FIREBASE valid or not
    /\ currentWineId = NoId
    /\ currentArchiveId = NoId
    /\ editMode = FALSE
    /\ archiveRating = 0
    /\ archiveRebuy = NULL
    /\ remoteWines = EmptyMap
    /\ remoteArchive = EmptyMap
    /\ winesEvents = << >>
    /\ archiveEvents = << >>
    /\ listening = FALSE
    /\ tasks = << >>
    /\ modal = "none"
    /\ localStorage = NoItem
    /\ storage = "ok"
    /\ calls = << >>
    /\ audit = Idle
    /\ otherListener = Detached
    /\ form = BlankForm
    /\ apiKey = NULL
    /\ attached = AttachedAt(rev, listening)
    /\ wineQuantity = <<"1">>

\* the clock advances
Tick ==
    /\ now < MaxTime
    /\ now' = now + 1
    /\ calls' = << >>
    /\ NoAudit
    /\ UNCHANGED <<rev, storage, wines, archive, syncInProgress, firebaseEnabled, userId, db,
                   currentWineId, currentArchiveId, editMode, archiveRating,
                   archiveRebuy, remoteWines, remoteArchive, winesEvents,
                   archiveEvents, listening, tasks, modal, localStorage>>
    /\ UNCHANGED otherListener
    /\ UNCHANGED fields
    /\ UNCHANGED attached

\* onAuthStateChanged(user), signed-in branch, with setupFirebaseListener:
\* off() on both paths, then on('value') on both, each of which delivers the
\* current value of its path
SignInEvent(seen) ==
    /\ rev = "firebaseOnly"
    /\ db # NULL
    /\ userId' = User
    /\ firebaseEnabled' = TRUE
    /\ attached' = [wines |-> On(Off(attached.wines)),
                    archive |-> On(Off(attached.archive))]
    /\ listening' = TRUE
    /\ winesEvents' = <<remoteWines>>
    /\ archiveEvents' = <<remoteArchive>>
    /\ calls' = << >>
    /\ audit' = seen
    /\ UNCHANGED <<rev, storage, now, wines, archive, syncInProgress, db, currentWineId,
                   currentArchiveId, editMode, archiveRating, archiveRebuy,
                   remoteWines, remoteArchive, tasks, modal, localStorage>>
    /\ UNCHANGED otherListener
    /\ UNCHANGED fields

AuthSignedIn ==
    /\ userId = NULL
    /\ SignInEvent(Idle)

\* the same callback called again for the user who is already signed in
AuthSignedInAgain ==
    /\ userId = User
    /\ SignInEvent([on |-> FALSE, op |-> "signedInAgain", before |-> attached])

\* the identity fields as the signed-out branch and signOut() leave them:
\* this.firebaseEnabled = false; this.userId = null
SignedOutKeepsFlag == [firebaseEnabled |-> TRUE, userId |-> NULL]

SignedOut == [firebaseEnabled |-> FALSE, userId |-> NULL]

\* onAuthStateChanged(null), signed-out branch
AuthSignedOut ==
    /\ rev = "firebaseOnly"
    /\ db # NULL
    /\ userId # NULL
    /\ firebaseEnabled' = SignedOut.firebaseEnabled
    /\ userId' = SignedOut.userId
    /\ wines' = << >>
    /\ archive' = << >>
    /\ calls' = <<Render>>
    /\ NoAudit
    /\ UNCHANGED <<rev, storage, now, syncInProgress, db, currentWineId, currentArchiveId,
                   editMode, archiveRating, archiveRebuy, remoteWines,
                   remoteArchive, winesEvents, archiveEvents, listening, tasks,
                   modal, localStorage>>
    /\ UNCHANGED otherListener
    /\ UNCHANGED fields
    /\ UNCHANGED attached


(***************************************************************************)
(* setupFirebaseListener: the two 'value' callbacks.                       *)
(***************************************************************************)
\* variant: a wines callback without the early return on the flag
WinesListenerOpen(data) ==
    [wines |-> Sort(ObjectValues(data), "addedAt"), calls |-> <<Render>>]

\* variant: a wines callback that keeps the local records the snapshot lacks
WinesListenerKeep(data) ==
    LET Absent(w) == w.id \notin DOMAIN data
    IN  IF syncInProgress
        THEN [wines |-> wines, calls |-> << >>]
        ELSE [wines |-> Sort(ObjectValues(data) \o SelectSeq(wines, Absent), "addedAt"),
              calls |-> <<Render>>]

\* the wines callback: what this.wines becomes and what it calls
WinesListener(data) ==
    IF syncInProgress
    THEN [wines |-> wines, calls |-> << >>]
    ELSE [wines |-> Sort(ObjectValues(data), "addedAt"), calls |-> <<Render>>]

\* the archive callback: what this.archive becomes (it renders nothing)
ArchiveListener(data) ==
    IF syncInProgress
    THEN archive
    ELSE Sort(ObjectValues(data), "archivedAt")

WinesValue ==
    /\ rev = "firebaseOnly"
    /\ listening
    /\ winesEvents # << >>
    /\ winesEvents' = Tail(winesEvents)
    /\ wines' = WinesListener(Head(winesEvents)).wines
    /\ calls' = WinesListener(Head(winesEvents)).calls
    /\ audit' = Heard("winesValue", Head(winesEvents))
    /\ UNCHANGED <<rev, storage, now, archive, syncInProgress, firebaseEnabled, userId, db,
                   currentWineId, currentArchiveId, editMode, archiveRating,
                   archiveRebuy, remoteWines, remoteArchive, archiveEvents,
                   listening, tasks, modal, localStorage>>
    /\ UNCHANGED otherListener
    /\ UNCHANGED fields
    /\ UNCHANGED attached

ArchiveValue ==
    /\ rev = "firebaseOnly"
    /\ listening
    /\ archiveEvents # << >>
    /\ archiveEvents' = Tail(archiveEvents)
    /\ archive' = ArchiveListener(Head(archiveEvents))
    /\ calls' = << >>
    /\ audit' = Heard("archiveValue", Head(archiveEvents))
    /\ UNCHANGED <<rev, storage, now, wines, syncInProgress, firebaseEnabled, userId, db,
                   currentWineId, currentArchiveId, editMode, archiveRating,
                   archiveRebuy, remoteWines, remoteArchive, winesEvents,
                   listening, tasks, modal, localStorage>>
    /\ UNCHANGED otherListener
    /\ UNCHANGED fields
    /\ UNCHANGED attached

(***************************************************************************)
(* A second account, and signOut().  The remote store that is modelled is  *)
(* the one of User; the paths of the second account hold nothing.          *)
(***************************************************************************)
\* onAuthStateChanged(user) for the second account: setupFirebaseListener
\* calls off() and on('value') on users/<Guest>/..., never on the paths of
\* the account that was signed in before
AuthSignedInOther ==
    /\ rev = "firebaseOnly"
    /\ db # NULL
    /\ userId # Guest
    /\ userId' = Guest
    /\ firebaseEnabled' = TRUE
    /\ otherListener' = [listening |-> TRUE, winesEvents |-> <<EmptyMap>>,
                         archiveEvents |-> <<EmptyMap>>]
    /\ calls' = << >>
    /\ NoAudit
    /\ UNCHANGED <<rev, storage, now, wines, archive, syncInProgress, db, currentWineId,
                   currentArchiveId, editMode, archiveRating, archiveRebuy,
                   remoteWines, remoteArchive, winesEvents, archiveEvents,
                   listening, tasks, modal, localStorage>>
    /\ UNCHANGED fields
    /\ UNCHANGED attached

\* the wines callback attached on the second account's path
OtherWinesValue ==
    /\ rev = "firebaseOnly"
    /\ otherListener.listening
    /\ otherListener.winesEvents # << >>
    /\ otherListener' = [otherListener EXCEPT !.winesEvents = Tail(@)]
    /\ wines' = WinesListener(Head(otherListener.winesEvents)).wines
    /\ calls' = WinesListener(Head(otherListener.winesEvents)).calls
    /\ audit' = Heard("otherWinesValue", Head(otherListener.winesEvents))
    /\ UNCHANGED <<rev, storage, now, archive, syncInProgress, firebaseEnabled, userId, db,
                   currentWineId, currentArchiveId, editMode, archiveRating,
                   archiveRebuy, remoteWines, remoteArchive, winesEvents,
                   archiveEvents, listening, tasks, modal, localStorage>>
    /\ UNCHANGED fields
    /\ UNCHANGED attached

\* the archive callback attached on the second account's path
OtherArchiveValue ==
    /\ rev = "firebaseOnly"
    /\ otherListener.listening
    /\ otherListener.archiveEvents # << >>
    /\ otherListener' = [otherListener EXCEPT !.archiveEvents = Tail(@)]
    /\ archive' = ArchiveListener(Head(otherListener.archiveEvents))
    /\ calls' = << >>
    /\ audit' = Heard("otherArchiveValue", Head(otherListener.archiveEvents))
    /\ UNCHANGED <<rev, storage, now, wines, syncInProgress, firebaseEnabled, userId, db,
                   currentWineId, currentArchiveId, editMode, archiveRating,
                   archiveRebuy, remoteWines, remoteArchive, winesEvents,
                   archiveEvents, listening, tasks, modal, localStorage>>
    /\ UNCHANGED fields
    /\ UNCHANGED attached

\* signOut(): off() on the two paths of this.userId, then the method is
\* suspended at `await firebase.auth().signOut()`
SignOut ==
    /\ rev = "firebaseOnly"
    /\ userId # NULL              \* showAppContent hides the sign-out button
    /\ Len(tasks) < MaxTasks
    /\ IF db = NULL
       THEN UNCHANGED <<listening, winesEvents, archiveEvents, otherListener, attached>>
       ELSE IF userId = User
            THEN /\ listening' = FALSE
                 /\ attached' = [wines |-> Off(attached.wines),
                                 archive |-> Off(attached.archive)]
                 /\ winesEvents' = << >>
                 /\ archiveEvents' = << >>
                 /\ UNCHANGED otherListener
            ELSE /\ otherListener' = Detached
                 /\ UNCHANGED <<listening, winesEvents, archiveEvents, attached>>
    /\ tasks' = Spawn(tasks, Task("signOut", "auth.signOut", NoId, EmptyMap))
    /\ calls' = << >>
    /\ NoAudit
    /\ UNCHANGED <<rev, storage, now, wines, archive, syncInProgress, firebaseEnabled,
                   userId, db, currentWineId, currentArchiveId, editMode,
                   archiveRating, archiveRebuy, remoteWines, remoteArchive, modal,
                   localStorage>>
    /\ UNCHANGED fields

\* `await firebase.auth().signOut()` settles: the fields are cleared, or the
\* catch block logs the error
SignOutSettled ==
    /\ \E i \in DOMAIN tasks, ok \in BOOLEAN :
          /\ tasks[i].op = "signOut"
          /\ tasks' = RemoveAt(tasks, i)
          /\ IF ok
             THEN /\ firebaseEnabled' = SignedOut.firebaseEnabled
                  /\ userId' = SignedOut.userId
                  /\ wines' = << >>
                  /\ archive' = << >>
                  /\ calls' = <<Render>>
             ELSE /\ calls' = << >>
                  /\ UNCHANGED <<firebaseEnabled, userId, wines, archive>>
    /\ NoAudit
    /\ UNCHANGED <<rev, storage, now, syncInProgress, db, currentWineId,
                   currentArchiveId, editMode, archiveRating, archiveRebuy,
                   remoteWines, remoteArchive, winesEvents, archiveEvents,
                   listening, otherListener, modal, localStorage>>
    /\ UNCHANGED fields
    /\ UNCHANGED attached

(***************************************************************************)
(* Another client signed in as the same user changes the remote wines.     *)
(***************************************************************************)
OtherClientSet ==
    /\ rev = "firebaseOnly"
    /\ db # NULL
    /\ Room(winesEvents)
    /\ \E id \in 1..now, name \in RemoteNames, skew \in ClockSkew :
          /\ id + skew <= now
          /\ LET at == id + skew IN remoteWines' = SetChild(remoteWines, Wine(id, name, 1, at))
    /\ winesEvents' = Fanout(winesEvents, remoteWines')
    /\ calls' = << >>
    /\ NoAudit
    /\ UNCHANGED <<rev, storage, now, wines, archive, syncInProgress, firebaseEnabled, userId,
                   db, currentWineId, currentArchiveId, editMode, archiveRating,
                   archiveRebuy, remoteArchive, archiveEvents, listening, tasks,
                   modal, localStorage>>
    /\ UNCHANGED otherListener
    /\ UNCHANGED fields
    /\ UNCHANGED attached

OtherClientRemove ==
    /\ rev = "firebaseOnly"
    /\ db # NULL
    /\ Room(winesEvents)
    /\ \E id \in DOMAIN remoteWines :
          remoteWines' = RemoveChild(remoteWines, id)
    /\ winesEvents' = Fanout(winesEvents, remoteWines')
    /\ calls' = << >>
    /\ NoAudit
    /\ UNCHANGED <<rev, storage, now, wines, archive, syncInProgress, firebaseEnabled, userId,
                   db, currentWineId, currentArchiveId, editMode, archiveRating,
                   archiveRebuy, remoteArchive, archiveEvents, listening, tasks,
                   modal, localStorage>>
    /\ UNCHANGED otherListener
    /\ UNCHANGED fields
    /\ UNCHANGED attached

(***************************************************************************)
(* Dialogs.                                                                *)
(***************************************************************************)
\* openAddModal
OpenAddModal ==
    /\ rev = "firebaseOnly"
    /\ modal = "none"
    /\ userId # NULL              \* showAppContent hides the add button
    /\ editMode' = FALSE
    /\ currentWineId' = NoId
    /\ modal' = "add"
    /\ calls' = << >>
    /\ NoAudit
    /\ UNCHANGED <<rev, storage, now, wines, archive, syncInProgress, firebaseEnabled, userId,
                   db, currentArchiveId, archiveRating, archiveRebuy, remoteWines,
                   remoteArchive, winesEvents, archiveEvents, listening, tasks,
                   localStorage>>
    /\ UNCHANGED otherListener
    /\ wineQuantity' = ToText(1)      \* resetForm
    /\ UNCHANGED scanner
    /\ UNCHANGED attached

\* openDetailModal(wineId), from a card of the rendered list
OpenDetailModal ==
    /\ rev = "firebaseOnly"
    /\ modal = "none"
    /\ userId # NULL              \* showAppContent hides the list
    /\ \E id \in Ids(wines) : currentWineId' = id
    /\ modal' = "detail"
    /\ calls' = << >>
    /\ NoAudit
    /\ UNCHANGED <<rev, storage, now, wines, archive, syncInProgress, firebaseEnabled, userId,
                   db, currentArchiveId, editMode, archiveRating, archiveRebuy,
                   remoteWines, remoteArchive, winesEvents, archiveEvents,
                   listening, tasks, localStorage>>
    /\ UNCHANGED otherListener
    /\ UNCHANGED fields
    /\ UNCHANGED attached

\* openArchiveDetail(archiveId), from a card of the archive list
OpenArchiveDetail ==
    /\ rev = "firebaseOnly"
    /\ modal = "none"
    /\ userId # NULL
    /\ \E id \in Ids(archive) : currentArchiveId' = id
    /\ modal' = "archiveDetail"
    /\ calls' = << >>
    /\ NoAudit
    /\ UNCHANGED <<rev, storage, now, wines, archive, syncInProgress, firebaseEnabled, userId,
                   db, currentWineId, editMode, archiveRating, archiveRebuy,
                   remoteWines, remoteArchive, winesEvents, archiveEvents,
                   listening, tasks, localStorage>>
    /\ UNCHANGED otherListener
    /\ UNCHANGED fields
    /\ UNCHANGED attached

\* closeModal(modalId) from the dialog's close button
CloseModal ==
    /\ rev = "firebaseOnly"
    /\ modal # "none"
    /\ modal' = "none"
    /\ calls' = << >>
    /\ NoAudit
    /\ UNCHANGED <<rev, storage, now, wines, archive, syncInProgress, firebaseEnabled, userId,
                   db, currentWineId, currentArchiveId, editMode, archiveRating,
                   archiveRebuy, remoteWines, remoteArchive, winesEvents,
                   archiveEvents, listening, tasks, localStorage>>
    /\ UNCHANGED otherListener
    /\ UNCHANGED fields
    /\ UNCHANGED attached

\* editCurrentWine, with its 300 ms timer that opens the form in edit mode
EditCurrentWine ==
    /\ rev = "firebaseOnly"
    /\ modal = "detail"
    /\ Found(wines, currentWineId)
    /\ editMode' = TRUE
    /\ modal' = "add"
    /\ calls' = << >>
    /\ NoAudit
    /\ UNCHANGED <<rev, storage, now, wines, archive, syncInProgress, firebaseEnabled, userId,
                   db, currentWineId, currentArchiveId, archiveRating, archiveRebuy,
                   remoteWines, remoteArchive, winesEvents, archiveEvents,
                   listening, tasks, localStorage>>
    /\ UNCHANGED otherListener
    /\ wineQuantity' = ToText(Find(wines, currentWineId).quantity)
    /\ UNCHANGED scanner
    /\ UNCHANGED attached

\* variant: a dialog that opens with the choices of the previous one
DialogResetKept == [rating |-> archiveRating, rebuy |-> archiveRebuy]

\* "Reset archive modal state"
DialogReset == [rating |-> 0, rebuy |-> NULL]

\* openDeleteModal
OpenDeleteModal ==
    /\ rev = "firebaseOnly"
    /\ modal = "detail"
    /\ Found(wines, currentWineId)
    /\ archiveRating' = DialogReset.rating
    /\ archiveRebuy' = DialogReset.rebuy
    /\ modal' = "archive"
    /\ calls' = << >>
    /\ NoAudit
    /\ UNCHANGED <<rev, storage, now, wines, archive, syncInProgress, firebaseEnabled, userId,
                   db, currentWineId, currentArchiveId, editMode, remoteWines,
                   remoteArchive, winesEvents, archiveEvents, listening, tasks,
                   localStorage>>
    /\ UNCHANGED otherListener
    /\ UNCHANGED fields
    /\ UNCHANGED attached

\* setArchiveRating(rating), the star clicked being one of S
SetArchiveRatingFrom(S) ==
    /\ rev = "firebaseOnly"
    /\ modal = "archive"
    /\ \E rating \in S : archiveRating' = rating
    /\ calls' = << >>
    /\ NoAudit
    /\ UNCHANGED <<rev, storage, now, wines, archive, syncInProgress, firebaseEnabled, userId,
                   db, currentWineId, currentArchiveId, editMode, archiveRebuy,
                   remoteWines, remoteArchive, winesEvents, archiveEvents,
                   listening, tasks, modal, localStorage>>
    /\ UNCHANGED otherListener
    /\ UNCHANGED fields
    /\ UNCHANGED attached

SetArchiveRating == SetArchiveRatingFrom(Stars)

\* the first or the last of the five stars
SetArchiveRatingEnds == SetArchiveRatingFrom(EndStars)

\* setRebuyOption(option), the button clicked being one of S
SetRebuyOptionFrom(S) ==
    /\ rev = "firebaseOnly"
    /\ modal = "archive"
    /\ \E option \in S : archiveRebuy' = option
    /\ calls' = << >>
    /\ NoAudit
    /\ UNCHANGED <<rev, storage, now, wines, archive, syncInProgress, firebaseEnabled, userId,
                   db, currentWineId, currentArchiveId, editMode, archiveRating,
                   remoteWines, remoteArchive, winesEvents, archiveEvents,
                   listening, tasks, modal, localStorage>>
    /\ UNCHANGED otherListener
    /\ UNCHANGED fields
    /\ UNCHANGED attached

SetRebuyOption == SetRebuyOptionFrom(RebuyOptions)

\* any of the three rebuy buttons
SetRebuyOptionAny == SetRebuyOptionFrom(RebuyValues)

(***************************************************************************)
(* saveWines / saveWinesToFirebase.                                        *)
(***************************************************************************)
\* the flag after saveWines(): saveWinesToFirebase sets it before the write
FlagAfterSave == IF RemoteReady THEN TRUE ELSE syncInProgress

\* the tasks after saveWines() with this.wines = list: the method is
\* suspended at `await ref(.../wines).set(winesObject)`
TasksAfterSave(list) ==
    IF RemoteReady
    THEN Spawn(tasks, Task("save", "set", NoId, WinesObject(list)))
    ELSE Disturb(tasks)

CallsOfSave(list) ==
    IF RemoteReady THEN <<Call("wines.set", TRUE, NoId)>> ELSE << >>

\* the flag when the write of saveWinesToFirebase has settled (finally)
FlagWhenSaveSettles == FALSE

\* variant: an edit that moves the edited record to the front of the list
ReplacedAtFront(list, index, wineData) ==
    <<wineData>> \o RemoveAt(list, index)

\* `this.wines[index] = wineData`
Replaced(list, index, wineData) == [list EXCEPT ![index] = wineData]

\* what a call of handleFormSubmit found
Submitted ==
    [on |-> FALSE, op |-> "handleFormSubmit", editMode |-> editMode,
     id |-> currentWineId, wines |-> wines, archive |-> archive, at |-> now]

\* handleFormSubmit: add (unshift) or edit (replace at the index found)
HandleFormSubmit ==
    /\ rev = "firebaseOnly"
    /\ modal = "add"
    /\ Len(tasks) < MaxTasks
    /\ \E name \in (IF editMode THEN EditNames ELSE AddNames), skew \in ClockSkew :
          LET at       == now + skew
              found    == Find(wines, currentWineId)
              index    == FindIndex(wines, currentWineId)
              quantity == OrOne(ParseInt(wineQuantity))
              wineData == Wine(IF editMode THEN currentWineId ELSE now,
                               name, quantity,
                               IF editMode THEN found.addedAt ELSE at)
              list     == IF editMode
                          THEN (IF index # -1
                                THEN Replaced(wines, index, wineData)
                                ELSE wines)
                          ELSE <<wineData>> \o wines
          IN  /\ at <= MaxTime
              /\ editMode => at = now
              /\ ~editMode => Len(wines) < MaxLen
              /\ now' = at
              /\ wines' = list
              /\ syncInProgress' = FlagAfterSave
              /\ tasks' = TasksAfterSave(list)
              /\ calls' = CallsOfSave(list) \o <<Render>>
    /\ modal' = "none"
    /\ audit' = Submitted
    /\ UNCHANGED <<rev, storage, archive, firebaseEnabled, userId, db, currentWineId,
                   currentArchiveId, editMode, archiveRating, archiveRebuy,
                   remoteWines, remoteArchive, winesEvents, archiveEvents,
                   listening, localStorage>>
    /\ UNCHANGED otherListener
    /\ UNCHANGED fields
    /\ UNCHANGED attached

\* the user types into the wineQuantity field of the open form
TypeQuantity ==
    /\ rev = "firebaseOnly"
    /\ modal = "add"
    /\ \E typed \in QuantityTexts : wineQuantity' = typed
    /\ calls' = << >>
    /\ NoAudit
    /\ UNCHANGED <<rev, storage, now, wines, archive, syncInProgress, firebaseEnabled, userId,
                   db, currentWineId, currentArchiveId, editMode, archiveRating,
                   archiveRebuy, remoteWines, remoteArchive, winesEvents,
                   archiveEvents, listening, tasks, modal, localStorage>>
    /\ UNCHANGED otherListener
    /\ UNCHANGED scanner
    /\ UNCHANGED attached

\* a click on one of the form's .qty-btn buttons
QuantityButton ==
    /\ rev = "firebaseOnly"
    /\ modal = "add"
    /\ \E action \in {"increase", "decrease"} :
          LET val == OrOne(ParseInt(wineQuantity))
          IN  /\ action = "increase" => val < MaxQuantity
              /\ wineQuantity' = ToText(CASE action = "increase" -> val + 1
                                          [] action = "decrease" /\ val > 1 -> val - 1
                                          [] OTHER -> val)
    /\ calls' = << >>
    /\ NoAudit
    /\ UNCHANGED <<rev, storage, now, wines, archive, syncInProgress, firebaseEnabled, userId,
                   db, currentWineId, currentArchiveId, editMode, archiveRating,
                   archiveRebuy, remoteWines, remoteArchive, winesEvents,
                   archiveEvents, listening, tasks, modal, localStorage>>
    /\ UNCHANGED otherListener
    /\ UNCHANGED scanner
    /\ UNCHANGED attached

\* a variant of the floor that never returns early
BelowFloorNever(newQty) == FALSE

\* a variant of the floor that lets the quantity reach 0
BelowFloorAtZero(newQty) == newQty < 0

\* `if (newQty < 1) return;`
BelowFloor(newQty) == newQty < 1

\* what a call of updateDetailQuantity(change) found
Adjusted(change) ==
    [on |-> FALSE, op |-> "updateDetailQuantity", change |-> change,
     wines |-> wines, archive |-> archive, tasks |-> tasks,
     localStorage |-> localStorage, remoteWines |-> remoteWines]

\* updateDetailQuantity(change)
UpdateDetailQuantity ==
    /\ rev = "firebaseOnly"
    /\ modal = "detail"
    /\ Len(tasks) < MaxTasks
    /\ \E change \in {1, -1} :
          LET index  == FindIndex(wines, currentWineId)
              newQty == wines[index].quantity + change
              list   == [wines EXCEPT ![index].quantity = newQty]
          IN  /\ audit' = Adjusted(change)
              /\ IF index = -1 \/ BelowFloor(newQty)
                 THEN /\ calls' = << >>
                      /\ UNCHANGED <<wines, syncInProgress, tasks>>
                 ELSE /\ newQty <= MaxQuantity
                      /\ wines' = list
                      /\ syncInProgress' = FlagAfterSave
                      /\ tasks' = TasksAfterSave(list)
                      /\ calls' = CallsOfSave(list) \o <<Render>>
    /\ UNCHANGED <<rev, storage, now, archive, firebaseEnabled, userId, db, currentWineId,
                   currentArchiveId, editMode, archiveRating, archiveRebuy,
                   remoteWines, remoteArchive, winesEvents, archiveEvents,
                   listening, modal, localStorage>>
    /\ UNCHANGED otherListener
    /\ UNCHANGED fields
    /\ UNCHANGED attached

\* `await ref(.../wines).set(winesObject)` settles: the full replace is
\* applied (ok) or rejected, then the finally block clears the flag (the
\* method is the same in both revisions)
SaveSettled ==
    /\ \E i \in DOMAIN tasks, ok \in BOOLEAN :
          /\ tasks[i].op = "save"
          /\ IF ok
             THEN /\ Room(winesEvents)
                  /\ remoteWines' = tasks[i].data
                  /\ winesEvents' = Fanout(winesEvents, remoteWines')
             ELSE UNCHANGED <<remoteWines, winesEvents>>
          /\ tasks' = RemoveAt(tasks, i)
    /\ syncInProgress' = FlagWhenSaveSettles
    /\ calls' = << >>
    /\ NoAudit
    /\ UNCHANGED <<rev, storage, now, wines, archive, firebaseEnabled, userId, db,
                   currentWineId, currentArchiveId, editMode, archiveRating,
                   archiveRebuy, remoteArchive, archiveEvents, listening, modal,
                   localStorage>>
    /\ UNCHANGED otherListener
    /\ UNCHANGED fields
    /\ UNCHANGED attached


(***************************************************************************)
(* deleteCurrentWine and deleteWineFromFirebase.                           *)
(***************************************************************************)
\* closeModal(modalId) for each of the named dialogs
CloseIf(names) == IF modal \in names THEN "none" ELSE modal

\* variant: a deleteCurrentWine that leaves the flag as it finds it
DeleteFlagKept == syncInProgress

\* the flag deleteCurrentWine sets before it removes the record locally
DeleteFlag == TRUE

\* variant: a deleteCurrentWine that keeps only the records before the first
\* record of the id
DeleteLocalTruncated ==
    IF Found(wines, currentWineId)
    THEN SubSeq(wines, 1, FindIndex(wines, currentWineId) - 1)
    ELSE wines

\* this.wines after deleteCurrentWine's filter
DeleteLocal == FilterOut(wines, currentWineId)

\* where deleteCurrentWine is suspended after its synchronous part: at the
\* first read of deleteWineFromFirebase, or with only its grace timer pending
DeletePc == IF RemoteReady THEN "exists" ELSE "timer"

CallsOfDelete ==
    IF RemoteReady
    THEN <<Call("wines.once", DeleteFlag, currentWineId)>>
    ELSE <<Render>>

\* what deleteWineFromFirebase returned ("true", "false") and what its reads
\* of the record's path found; "pending" while it has not returned or was
\* not called
Returned(value, reread) == [returned |-> value, reread |-> reread]

NotReturned == Returned("pending", "none")

\* the value returned after the verifying read: `return true`, whatever
\* verifySnapshot.exists() says
ReturnAfterVerify(found) == "true"

\* skipArchiveAndDelete: deleteCurrentWine without archiving
SkipArchiveAndDelete ==
    /\ rev = "firebaseOnly"
    /\ modal = "archive"
    /\ Len(tasks) < MaxTasks
    /\ syncInProgress' = DeleteFlag
    /\ wines' = DeleteLocal
    /\ tasks' = Spawn(tasks, Task("delete", DeletePc, currentWineId, NotReturned))
    /\ calls' = CallsOfDelete
    /\ modal' = IF DeletePc = "timer" THEN "none" ELSE modal
    /\ audit' = [on |-> TRUE, op |-> "skipArchiveAndDelete", wines |-> wines,
                 archive |-> archive, id |-> currentWineId,
                 done |-> DeletePc = "timer"]
    /\ UNCHANGED <<rev, storage, now, archive, firebaseEnabled, userId, db, currentWineId,
                   currentArchiveId, editMode, archiveRating, archiveRebuy,
                   remoteWines, remoteArchive, winesEvents, archiveEvents,
                   listening, localStorage>>
    /\ UNCHANGED otherListener
    /\ UNCHANGED fields
    /\ UNCHANGED attached

\* skipArchiveAndDelete of the login-gated revision: its deleteCurrentWine
\* sets the flag, filters this.wines and calls this.saveToLocalStorage(),
\* which that class does not define; the TypeError ends both methods before
\* the remote delete, before closeModal and before setTimeout
SkipArchiveAndDeleteGated ==
    /\ rev = "loginGated"
    /\ modal = "archive"
    /\ syncInProgress' = DeleteFlag
    /\ wines' = DeleteLocal
    /\ calls' = <<Call("saveToLocalStorage", syncInProgress, NoId)>>
    /\ audit' = [on |-> FALSE, op |-> "skipArchiveAndDeleteGated", wines |-> wines,
                 archive |-> archive, id |-> currentWineId]
    /\ UNCHANGED <<rev, storage, now, archive, firebaseEnabled, userId, db, currentWineId,
                   currentArchiveId, editMode, archiveRating, archiveRebuy,
                   remoteWines, remoteArchive, winesEvents, archiveEvents,
                   listening, tasks, modal, localStorage>>
    /\ UNCHANGED otherListener
    /\ UNCHANGED fields
    /\ UNCHANGED attached

\* the confirmArchive or the restoreWineFromArchive that runs alone is
\* followed until it has run to its end
AuditStep(i, done) ==
    audit' = IF audit.on /\ i = Len(tasks)
             THEN [audit EXCEPT !.done = done]
             ELSE Idle

\* `await ref(path).once('value')` settles: the record exists and remove() is
\* called, or it does not exist (return true), or the read failed (return false)
DeleteExistsSettled ==
    /\ rev = "firebaseOnly"
    /\ \E i \in DOMAIN tasks, ok \in BOOLEAN :
          /\ tasks[i].op = "delete"
          /\ tasks[i].pc = "exists"
          /\ IF ok /\ tasks[i].id \in DOMAIN remoteWines
             THEN /\ tasks' = [tasks EXCEPT ![i].pc = "remove"]
                  /\ calls' = <<Call("wines.remove", syncInProgress, tasks[i].id)>>
                  /\ UNCHANGED modal
                  /\ AuditStep(i, FALSE)
             ELSE /\ tasks' = [tasks EXCEPT ![i].pc = "timer",
                                           ![i].data = IF ok
                                                       THEN Returned("true", "absent")
                                                       ELSE Returned("false", "failed")]
                  /\ calls' = <<Render>>
                  /\ modal' = CloseIf({"detail", "archive"})
                  /\ AuditStep(i, TRUE)
    /\ UNCHANGED <<rev, storage, now, wines, archive, syncInProgress, firebaseEnabled, userId,
                   db, currentWineId, currentArchiveId, editMode, archiveRating,
                   archiveRebuy, remoteWines, remoteArchive, winesEvents,
                   archiveEvents, listening, localStorage>>
    /\ UNCHANGED otherListener
    /\ UNCHANGED fields
    /\ UNCHANGED attached

\* `await ref(path).remove()` settles: the record is removed remotely and the
\* verifying read is issued, or the remove failed (return false)
DeleteRemoveSettled ==
    /\ rev = "firebaseOnly"
    /\ \E i \in DOMAIN tasks, ok \in BOOLEAN :
          /\ tasks[i].op = "delete"
          /\ tasks[i].pc = "remove"
          /\ IF ok
             THEN /\ Room(winesEvents)
                  /\ remoteWines' = RemoveChild(remoteWines, tasks[i].id)
                  /\ winesEvents' = Fanout(winesEvents, remoteWines')
                  /\ tasks' = [tasks EXCEPT ![i].pc = "verify"]
                  /\ calls' = <<Call("wines.once", syncInProgress, tasks[i].id)>>
                  /\ UNCHANGED modal
                  /\ AuditStep(i, FALSE)
             ELSE /\ tasks' = [tasks EXCEPT ![i].pc = "timer",
                                           ![i].data = Returned("false", "failed")]
                  /\ calls' = <<Render>>
                  /\ modal' = CloseIf({"detail", "archive"})
                  /\ AuditStep(i, TRUE)
                  /\ UNCHANGED <<remoteWines, winesEvents>>
    /\ UNCHANGED <<rev, storage, now, wines, archive, syncInProgress, firebaseEnabled, userId,
                   db, currentWineId, currentArchiveId, editMode, archiveRating,
                   archiveRebuy, remoteArchive, archiveEvents, listening,
                   localStorage>>
    /\ UNCHANGED otherListener
    /\ UNCHANGED fields
    /\ UNCHANGED attached

\* the verifying read settles (it finds the record or not, or it fails and
\* the catch block returns false); deleteWineFromFirebase returns and
\* deleteCurrentWine renders and starts its grace timer
DeleteVerifySettled ==
    /\ rev = "firebaseOnly"
    /\ \E i \in DOMAIN tasks, ok \in BOOLEAN :
          /\ tasks[i].op = "delete"
          /\ tasks[i].pc = "verify"
          /\ LET found == tasks[i].id \in DOMAIN remoteWines
             IN  tasks' = [tasks EXCEPT
                    ![i].pc = "timer",
                    ![i].data = IF ok
                                THEN Returned(ReturnAfterVerify(found),
                                              IF found THEN "found" ELSE "gone")
                                ELSE Returned("false", "failed")]
          /\ AuditStep(i, TRUE)
    /\ calls' = <<Render>>
    /\ modal' = CloseIf({"detail", "archive"})
    /\ UNCHANGED <<rev, storage, now, wines, archive, syncInProgress, firebaseEnabled, userId,
                   db, currentWineId, currentArchiveId, editMode, archiveRating,
                   archiveRebuy, remoteWines, remoteArchive, winesEvents,
                   archiveEvents, listening, localStorage>>
    /\ UNCHANGED otherListener
    /\ UNCHANGED fields
    /\ UNCHANGED attached

\* the flag when the grace timer of deleteCurrentWine fires
FlagWhenTimerFires == FALSE

\* setTimeout(() => { this.syncInProgress = false }, 2000) fires
GraceTimer ==
    /\ rev = "firebaseOnly"
    /\ \E i \in DOMAIN tasks :
          /\ tasks[i].op = "delete"
          /\ tasks[i].pc = "timer"
          /\ tasks' = RemoveAt(tasks, i)
    /\ syncInProgress' = FlagWhenTimerFires
    /\ calls' = << >>
    /\ NoAudit
    /\ UNCHANGED <<rev, storage, now, wines, archive, firebaseEnabled, userId, db,
                   currentWineId, currentArchiveId, editMode, archiveRating,
                   archiveRebuy, remoteWines, remoteArchive, winesEvents,
                   archiveEvents, listening, modal, localStorage>>
    /\ UNCHANGED otherListener
    /\ UNCHANGED fields
    /\ UNCHANGED attached


(***************************************************************************)
(* confirmArchive and pushToArchive.                                       *)
(***************************************************************************)
\* the archive entry confirmArchive builds: { ...wine, rating, rebuy,
\* archiveNotes, archivedAt }
Archived(wine, rating, rebuy, notes, at) ==
    [id |-> wine.id, name |-> wine.name, quantity |-> wine.quantity,
     image |-> wine.image, addedAt |-> wine.addedAt, rating |-> rating,
     rebuy |-> rebuy, archiveNotes |-> notes, archivedAt |-> at]

\* variant: an archive entry that ignores the dialog's rating and rebuy
ArchivedWineUnrated(wine, notes, at) == Archived(wine, 0, NULL, notes, at)

ArchivedWine(wine, notes, at) ==
    Archived(wine, archiveRating, archiveRebuy, notes, at)

\* this.archive after pushToArchive's unshift
PushLocal(archivedWine) == <<archivedWine>> \o archive

ConfirmArchive ==
    /\ rev = "firebaseOnly"
    /\ modal = "archive"
    /\ Len(tasks) < MaxTasks
    /\ \E notes \in NoteInputs :
          LET wine         == Find(wines, currentWineId)
              archivedWine == ArchivedWine(wine, notes, now)
              started      == [on |-> TRUE, op |-> "confirmArchive", wines |-> wines, archive |-> archive, wine |-> wine,
                               rating |-> archiveRating, rebuy |-> archiveRebuy,
                               notes |-> notes, at |-> now, done |-> ~RemoteReady]
          IN  IF ~Found(wines, currentWineId)
              THEN /\ calls' = << >>
                   /\ NoAudit
                   /\ UNCHANGED <<wines, archive, syncInProgress, tasks, modal>>
              ELSE /\ Len(archive) < MaxArchive
                   /\ archive' = PushLocal(archivedWine)
                   /\ audit' = started
                   /\ IF RemoteReady
                      THEN /\ tasks' = Spawn(tasks, Task("confirmArchive", "archive.set",
                                                         NoId, archivedWine))
                           /\ calls' = <<Call("archive.set", syncInProgress,
                                              archivedWine.id)>>
                           /\ UNCHANGED <<wines, syncInProgress, modal>>
                      ELSE /\ syncInProgress' = DeleteFlag
                           /\ wines' = DeleteLocal
                           /\ tasks' = Spawn(tasks, Task("delete", "timer",
                                                         currentWineId, NotReturned))
                           /\ calls' = <<Render>>
                           /\ modal' = "none"
    /\ UNCHANGED <<rev, storage, now, firebaseEnabled, userId, db, currentWineId,
                   currentArchiveId, editMode, archiveRating, archiveRebuy,
                   remoteWines, remoteArchive, winesEvents, archiveEvents,
                   listening, localStorage>>
    /\ UNCHANGED otherListener
    /\ UNCHANGED fields
    /\ UNCHANGED attached

\* `await ref(.../archive/<id>).set(archivedWine)` settles; confirmArchive
\* goes on into deleteCurrentWine, which reads this.currentWineId now
ArchiveSetSettled ==
    /\ rev = "firebaseOnly"
    /\ \E i \in DOMAIN tasks, ok \in BOOLEAN :
          /\ tasks[i].op = "confirmArchive"
          /\ IF ok
             THEN /\ Room(archiveEvents)
                  /\ remoteArchive' = SetChild(remoteArchive, tasks[i].data)
                  /\ archiveEvents' = Fanout(archiveEvents, remoteArchive')
             ELSE UNCHANGED <<remoteArchive, archiveEvents>>
          /\ tasks' = [tasks EXCEPT ![i] = [@ EXCEPT !.op = "delete",
                                                    !.pc = DeletePc,
                                                    !.id = currentWineId,
                                                    !.data = NotReturned]]
          /\ AuditStep(i, DeletePc = "timer")
    /\ syncInProgress' = DeleteFlag
    /\ wines' = DeleteLocal
    /\ calls' = CallsOfDelete
    /\ modal' = IF DeletePc = "timer" THEN CloseIf({"detail", "archive"}) ELSE modal
    /\ UNCHANGED <<rev, storage, now, archive, firebaseEnabled, userId, db, currentWineId,
                   currentArchiveId, editMode, archiveRating, archiveRebuy,
                   remoteWines, winesEvents, listening, localStorage>>
    /\ UNCHANGED otherListener
    /\ UNCHANGED fields
    /\ UNCHANGED attached

(***************************************************************************)
(* restoreWineFromArchive, deleteFromArchiveConfirm and deleteFromArchive. *)
(***************************************************************************)
\* variant: a deleteFromArchive that empties this.archive
ArchiveDeleteLocalAll == << >>

\* this.archive after deleteFromArchive's filter
ArchiveDeleteLocal == FilterOut(archive, currentArchiveId)

RestoreWineFromArchive ==
    /\ rev = "firebaseOnly"
    /\ modal = "archiveDetail"
    /\ Len(tasks) < MaxTasks
    /\ \E skew \in ClockSkew :
          LET at           == now + skew
              archivedWine == Find(archive, currentArchiveId)
              restoredWine == [Wine(now, archivedWine.name, 1, at)
                                  EXCEPT !.image = archivedWine.image]
              started      == [on |-> TRUE, op |-> "restore", wines |-> wines,
                               archive |-> archive, record |-> archivedWine,
                               at |-> now, done |-> ~RemoteReady]
          IN  IF ~Found(archive, currentArchiveId)
              THEN /\ calls' = << >>
                   /\ at = now
                   /\ NoAudit
                   /\ UNCHANGED <<now, wines, archive, tasks, modal>>
              ELSE /\ at <= MaxTime
                   /\ audit' = started
                   /\ Len(wines) < MaxLen
                   /\ now' = at
                   /\ wines' = <<restoredWine>> \o wines
                   /\ IF RemoteReady
                      THEN /\ tasks' = Spawn(tasks, Task("restore", "wine.set",
                                                         NoId, restoredWine))
                           /\ calls' = <<Call("wine.set", syncInProgress,
                                              restoredWine.id)>>
                           /\ UNCHANGED <<archive, modal>>
                      ELSE /\ archive' = ArchiveDeleteLocal
                           /\ tasks' = Disturb(tasks)
                           /\ calls' = <<Render>>
                           /\ modal' = "none"
    /\ UNCHANGED <<rev, storage, syncInProgress, firebaseEnabled, userId, db, currentWineId,
                   currentArchiveId, editMode, archiveRating, archiveRebuy,
                   remoteWines, remoteArchive, winesEvents, archiveEvents,
                   listening, localStorage>>
    /\ UNCHANGED otherListener
    /\ UNCHANGED fields
    /\ UNCHANGED attached

\* `await this.pushWineToFirebase(restoredWine)` settles; the method goes on
\* into deleteFromArchive(this.currentArchiveId)
RestorePushSettled ==
    /\ rev = "firebaseOnly"
    /\ \E i \in DOMAIN tasks, ok \in BOOLEAN :
          /\ tasks[i].op = "restore"
          /\ tasks[i].pc = "wine.set"
          /\ IF ok
             THEN /\ Room(winesEvents)
                  /\ remoteWines' = SetChild(remoteWines, tasks[i].data)
                  /\ winesEvents' = Fanout(winesEvents, remoteWines')
             ELSE UNCHANGED <<remoteWines, winesEvents>>
          /\ IF RemoteReady
             THEN /\ tasks' = [tasks EXCEPT ![i] = [@ EXCEPT !.pc = "archive.remove",
                                                            !.id = currentArchiveId,
                                                            !.data = NULL]]
                  /\ calls' = <<Call("archive.remove", syncInProgress,
                                     currentArchiveId)>>
                  /\ UNCHANGED modal
             ELSE /\ tasks' = RemoveAt(tasks, i)
                  /\ calls' = <<Render>>
                  /\ modal' = CloseIf({"archiveDetail"})
          /\ AuditStep(i, ~RemoteReady)
    /\ archive' = ArchiveDeleteLocal
    /\ UNCHANGED <<rev, storage, now, wines, syncInProgress, firebaseEnabled, userId, db,
                   currentWineId, currentArchiveId, editMode, archiveRating,
                   archiveRebuy, remoteArchive, archiveEvents, listening,
                   localStorage>>
    /\ UNCHANGED otherListener
    /\ UNCHANGED fields
    /\ UNCHANGED attached

\* deleteFromArchiveConfirm: confirm() answered, then deleteFromArchive
DeleteFromArchiveConfirm ==
    /\ rev = "firebaseOnly"
    /\ modal = "archiveDetail"
    /\ Len(tasks) < MaxTasks
    /\ \E confirmed \in BOOLEAN :
          /\ audit' = [on |-> FALSE, op |-> "deleteFromArchiveConfirm",
                       confirmed |-> confirmed, wines |-> wines,
                       archive |-> archive, tasks |-> tasks,
                       id |-> currentArchiveId]
          /\ IF ~confirmed
             THEN /\ calls' = << >>
                  /\ UNCHANGED <<archive, tasks, modal>>
             ELSE /\ archive' = ArchiveDeleteLocal
                  /\ IF RemoteReady
                     THEN /\ tasks' = Spawn(tasks, Task("deleteFromArchive",
                                                        "archive.remove",
                                                        currentArchiveId, NULL))
                          /\ calls' = <<Call("archive.remove", syncInProgress,
                                             currentArchiveId)>>
                          /\ UNCHANGED modal
                     ELSE /\ tasks' = Disturb(tasks)
                          /\ calls' = << >>
                          /\ modal' = "none"
    /\ UNCHANGED <<rev, storage, now, wines, syncInProgress, firebaseEnabled, userId, db,
                   currentWineId, currentArchiveId, editMode, archiveRating,
                   archiveRebuy, remoteWines, remoteArchive, winesEvents,
                   archiveEvents, listening, localStorage>>
    /\ UNCHANGED otherListener
    /\ UNCHANGED fields
    /\ UNCHANGED attached

\* `await ref(.../archive/<id>).remove()` of deleteFromArchive settles
ArchiveRemoveSettled ==
    /\ rev = "firebaseOnly"
    /\ \E i \in DOMAIN tasks, ok \in BOOLEAN :
          /\ tasks[i].pc = "archive.remove"
          /\ IF ok
             THEN /\ Room(archiveEvents)
                  /\ remoteArchive' = RemoveChild(remoteArchive, tasks[i].id)
                  /\ archiveEvents' = Fanout(archiveEvents, remoteArchive')
             ELSE UNCHANGED <<remoteArchive, archiveEvents>>
          /\ calls' = IF tasks[i].op = "restore" THEN <<Render>> ELSE << >>
          /\ tasks' = RemoveAt(tasks, i)
          /\ AuditStep(i, TRUE)
    /\ modal' = CloseIf({"archiveDetail"})
    /\ UNCHANGED <<rev, storage, now, wines, archive, syncInProgress, firebaseEnabled, userId,
                   db, currentWineId, currentArchiveId, editMode, archiveRating,
                   archiveRebuy, remoteWines, winesEvents, listening, localStorage>>
    /\ UNCHANGED otherListener
    /\ UNCHANGED fields
    /\ UNCHANGED attached

\* restoreWineFromArchive of the login-gated revision: after the unshift it
\* calls this.saveToLocalStorage(), which that class does not define; the
\* TypeError ends the method before the push and before deleteFromArchive
RestoreWineFromArchiveGated ==
    /\ rev = "loginGated"
    /\ modal = "archiveDetail"
    /\ \E skew \in ClockSkew :
          LET at           == now + skew
              archivedWine == Find(archive, currentArchiveId)
              restoredWine == [Wine(now, archivedWine.name, 1, at)
                                  EXCEPT !.image = archivedWine.image]
          IN  IF ~Found(archive, currentArchiveId)
              THEN /\ calls' = << >>
                   /\ at = now
                   /\ NoAudit
                   /\ UNCHANGED <<now, wines>>
              ELSE /\ at <= MaxTime
                   /\ Len(wines) < MaxLen
                   /\ now' = at
                   /\ wines' = <<restoredWine>> \o wines
                   /\ calls' = <<Call("saveToLocalStorage", syncInProgress, NoId)>>
                   /\ audit' = [on |-> TRUE, op |-> "restore", wines |-> wines,
                                archive |-> archive, record |-> archivedWine,
                                at |-> now, done |-> TRUE]
    /\ UNCHANGED <<rev, storage, archive, syncInProgress, firebaseEnabled, userId,
                   db, currentWineId, currentArchiveId, editMode, archiveRating,
                   archiveRebuy, remoteWines, remoteArchive, winesEvents,
                   archiveEvents, listening, tasks, modal, localStorage>>
    /\ UNCHANGED otherListener
    /\ UNCHANGED fields
    /\ UNCHANGED attached

(***************************************************************************)
(* The union-merge revision (src/app.js, first class): the 'value'         *)
(* callback, mergeWines, pushWineToFirebase and saveToLocalStorage.        *)
(***************************************************************************)
\* Map.prototype.set(w.id, w): a known key keeps its position and takes the
\* new value, a new key is appended
MapSet(map, w) ==
    IF Found(map, w.id)
    THEN [map EXCEPT ![FindIndex(map, w.id)] = w]
    ELSE Append(map, w)

\* list.forEach(w => merged.set(w.id, w))
RECURSIVE MapSetAll(_, _)
MapSetAll(map, list) ==
    IF list = << >>
    THEN map
    ELSE MapSetAll(MapSet(map, Head(list)), Tail(list))

\* variant: every local record passes, whether Firebase has its id or not
LocalAll(local, firebaseWines) == local

\* the records of this.wines that pass `!firebaseWinesMap.has(w.id)`, in the
\* order of this.wines: each is set in merged and pushed
LocalOnly(local, firebaseWines) ==
    LET Absent(w) == w.id \notin Ids(firebaseWines) IN SelectSeq(local, Absent)

\* variant: the local version of a record replaces the Firebase version
MergedLocalFirst(local, firebaseWines) ==
    MapSetAll(MapSetAll(<< >>, firebaseWines), local)

\* Array.from(merged.values()): all Firebase wines, then the local-only ones
Merged(local, firebaseWines) ==
    MapSetAll(MapSetAll(<< >>, firebaseWines), LocalOnly(local, firebaseWines))

\* this.wines after mergeWines(firebaseWines)
MergeWines(local, firebaseWines) == Sort(Merged(local, firebaseWines), "addedAt")

\* A JSON text is kept as its sequence of object texts, each the sequence of
\* the members `"key": literal` that JSON.stringify writes.
Member(key, kind, text) == [key |-> key, kind |-> kind, text |-> text]

\* the literal of a value that is a string or null
StringOrNull(key, value) ==
    IF value = NULL THEN Member(key, "null", "null") ELSE Member(key, "string", value)

\* variant: a stringify that writes every image as null
StringifyWineBare(w) ==
    <<Member("id", "string", w.id), Member("name", "string", w.name),
      Member("quantity", "number", w.quantity), Member("image", "null", "null"),
      Member("addedAt", "string", w.addedAt)>>

\* JSON.stringify of one record: its own properties in insertion order
StringifyWine(w) ==
    <<Member("id", "string", w.id), Member("name", "string", w.name),
      Member("quantity", "number", w.quantity), StringOrNull("image", w.image),
      Member("addedAt", "string", w.addedAt)>>

\* JSON.stringify(this.wines)
JSONStringify(list) ==
    [item |-> "json", json |-> [i \in DOMAIN list |-> StringifyWine(list[i])]]

\* the value of the member `key` of an object text: null literals give null
ValueOf(object, key) ==
    LET m == CHOOSE m \in {object[k] : k \in DOMAIN object} : m.key = key
    IN  IF m.kind = "null" THEN NULL ELSE m.text

\* JSON.parse of a JSON text written by JSON.stringify
JSONParse(text) ==
    [i \in DOMAIN text.json |->
        [id       |-> ValueOf(text.json[i], "id"),
         name     |-> ValueOf(text.json[i], "name"),
         quantity |-> ValueOf(text.json[i], "quantity"),
         image    |-> ValueOf(text.json[i], "image"),
         addedAt  |-> ValueOf(text.json[i], "addedAt")]]

\* this.wines.map(w => ({ ...w, image: null }))
WithoutImages(list) == [i \in DOMAIN list |-> [list[i] EXCEPT !.image = NULL]]

\* how localStorage.setItem answers: it stores the item; it throws
\* QuotaExceededError for the full list and stores the list without images;
\* it throws QuotaExceededError for both; it throws another exception
StorageModes == {"ok", "quota", "full", "error"}

\* the item 'wineCellar' after saveToLocalStorage() with this.wines = list
SaveToLocalStorage(list) ==
    CASE storage = "ok"    -> JSONStringify(list)
      [] storage = "quota" -> JSONStringify(WithoutImages(list))
      [] OTHER             -> localStorage

\* the setItem calls of saveToLocalStorage()
CallsOfStore ==
    IF storage \in {"quota", "full"}
    THEN <<Call("localStorage.setItem", syncInProgress, NoId),
           Call("localStorage.setItem", syncInProgress, NoId)>>
    ELSE <<Call("localStorage.setItem", syncInProgress, NoId)>>

\* variant: a second attempt after every failure of the first
SetItemAttemptsAlways(list) ==
    IF storage = "ok"
    THEN <<JSONStringify(list)>>
    ELSE <<JSONStringify(list), JSONStringify(WithoutImages(list))>>

\* the values saveToLocalStorage() hands to localStorage.setItem, in order:
\* the second attempt is made in the catch block, for a quota error only
SetItemAttempts(list) ==
    IF storage \in {"quota", "full"}
    THEN <<JSONStringify(list), JSONStringify(WithoutImages(list))>>
    ELSE <<JSONStringify(list)>>

\* saveToLocalStorage() of the union-merge revision and saveWines() of the
\* local-only revision, called with this.wines as it is; every exception is
\* caught inside the method
StoreWines ==
    /\ rev \in {"unionMerge", "localOnly"}
    /\ localStorage' = SaveToLocalStorage(wines)
    /\ calls' = CallsOfStore
    /\ audit' = [on |-> FALSE, op |-> "saveToLocalStorage", wines |-> wines,
                 stored |-> localStorage, attempts |-> SetItemAttempts(wines),
                 threw |-> FALSE]
    /\ UNCHANGED <<rev, storage, now, wines, archive, syncInProgress, firebaseEnabled,
                   userId, db, currentWineId, currentArchiveId, editMode,
                   archiveRating, archiveRebuy, remoteWines, remoteArchive,
                   winesEvents, archiveEvents, listening, tasks, modal,
                   otherListener>>
    /\ UNCHANGED fields
    /\ UNCHANGED attached

\* the page is loaded: the constructor sets its fields and init() calls loadWines(),
\* which parses the item when there is one; JSON.parse throws a SyntaxError
\* for a string that is not JSON and nothing catches it
LoadWines ==
    /\ rev \in {"unionMerge", "localOnly"}
    /\ wines' = IF localStorage.item = "json" THEN JSONParse(localStorage) ELSE << >>
    /\ audit' = [on |-> FALSE, op |-> "loadWines", stored |-> localStorage,
                 afterSave |-> audit.op = "saveToLocalStorage",
                 saved |-> IF audit.op = "saveToLocalStorage"
                           THEN audit.wines ELSE << >>,
                 threw |-> localStorage.item = "corrupt"]
    /\ currentWineId' = NoId
    /\ editMode' = FALSE
    /\ syncInProgress' = FALSE
    /\ firebaseEnabled' = FALSE
    /\ userId' = NULL
    /\ db' = NULL
    /\ tasks' = << >>
    /\ listening' = FALSE
    /\ winesEvents' = << >>
    /\ archiveEvents' = << >>
    /\ modal' = "none"
    /\ calls' = << >>
    /\ UNCHANGED <<rev, storage, now, archive, currentArchiveId, archiveRating,
                   archiveRebuy, remoteWines, remoteArchive, localStorage,
                   otherListener>>
    /\ UNCHANGED fields
    /\ UNCHANGED attached

\* pushWineToFirebase(w) for each record of list: the calls, and the methods
\* suspended at `await ref(.../wines/<id>).set(wine)`
PushCalls(list) ==
    [i \in DOMAIN list |-> Call("pushWineToFirebase", syncInProgress, list[i].id)]

PushTasks(list) ==
    IF RemoteReady
    THEN [i \in DOMAIN list |-> Task("push", "wine.set", list[i].id, list[i])]
    ELSE << >>

\* the 'value' callback of the union-merge revision
WinesValueMerge ==
    /\ rev = "unionMerge"
    /\ listening
    /\ winesEvents # << >>
    /\ winesEvents' = Tail(winesEvents)
    /\ audit' = Heard("winesValue", Head(winesEvents))
    /\ LET data          == Head(winesEvents)
           firebaseWines == ObjectValues(data)
           pushed        == LocalOnly(wines, firebaseWines)
       IN  IF syncInProgress \/ DOMAIN data = {}
           THEN /\ calls' = << >>
                /\ UNCHANGED <<wines, tasks, localStorage>>
           ELSE /\ wines' = MergeWines(wines, firebaseWines)
                /\ tasks' = Disturb(tasks) \o PushTasks(pushed)
                /\ localStorage' = SaveToLocalStorage(MergeWines(wines, firebaseWines))
                /\ calls' = PushCalls(pushed) \o CallsOfStore \o <<Render>>
    /\ UNCHANGED <<rev, storage, now, archive, syncInProgress, firebaseEnabled,
                   userId, db, currentWineId, currentArchiveId, editMode,
                   archiveRating, archiveRebuy, remoteWines, remoteArchive,
                   archiveEvents, listening, modal>>
    /\ UNCHANGED otherListener
    /\ UNCHANGED fields
    /\ UNCHANGED attached

\* `await ref(.../wines/<id>).set(wine)` of pushWineToFirebase settles
PushSettled ==
    /\ rev = "unionMerge"
    /\ \E i \in DOMAIN tasks, ok \in BOOLEAN :
          /\ tasks[i].op = "push"
          /\ IF ok
             THEN /\ Room(winesEvents)
                  /\ remoteWines' = SetChild(remoteWines, tasks[i].data)
                  /\ winesEvents' = Fanout(winesEvents, remoteWines')
             ELSE UNCHANGED <<remoteWines, winesEvents>>
          /\ tasks' = RemoveAt(tasks, i)
    /\ calls' = << >>
    /\ NoAudit
    /\ UNCHANGED <<rev, storage, now, wines, archive, syncInProgress,
                   firebaseEnabled, userId, db, currentWineId, currentArchiveId,
                   editMode, archiveRating, archiveRebuy, remoteArchive,
                   archiveEvents, listening, modal, localStorage>>
    /\ UNCHANGED otherListener
    /\ UNCHANGED fields
    /\ UNCHANGED attached

\* variant: a saveWines() that starts the remote write before the cache write
CallsOfSaveWinesRemoteFirst(list) == CallsOfSave(list) \o CallsOfStore

\* the calls of saveWines() of the union-merge revision with this.wines =
\* list: saveToLocalStorage(), then saveWinesToFirebase() if firebaseEnabled
CallsOfSaveWines(list) ==
    CallsOfStore \o (IF firebaseEnabled THEN CallsOfSave(list) ELSE << >>)

\* updateDetailQuantity(change) of the union-merge revision: saveWines()
\* writes the local cache, then the remote store when it is enabled
UpdateDetailQuantityMerge ==
    /\ rev = "unionMerge"
    /\ modal = "detail"
    /\ Len(tasks) < MaxTasks
    /\ \E change \in {1, -1} :
          LET index  == FindIndex(wines, currentWineId)
              newQty == wines[index].quantity + change
              list   == [wines EXCEPT ![index].quantity = newQty]
          IN  /\ audit' = Adjusted(change)
              /\ IF index = -1 \/ BelowFloor(newQty)
                 THEN /\ calls' = << >>
                      /\ UNCHANGED <<wines, syncInProgress, tasks, localStorage>>
                 ELSE /\ newQty <= MaxQuantity
                      /\ wines' = list
                      /\ localStorage' = SaveToLocalStorage(list)
                      /\ syncInProgress' = FlagAfterSave
                      /\ tasks' = TasksAfterSave(list)
                      /\ calls' = CallsOfSaveWines(list) \o <<Render>>
    /\ UNCHANGED <<rev, storage, now, archive, firebaseEnabled, userId, db, currentWineId,
                   currentArchiveId, editMode, archiveRating, archiveRebuy,
                   remoteWines, remoteArchive, winesEvents, archiveEvents,
                   listening, modal>>
    /\ UNCHANGED otherListener
    /\ UNCHANGED fields
    /\ UNCHANGED attached

\* handleFormSubmit of the union-merge revision: add or edit, then saveWines()
HandleFormSubmitMerge ==
    /\ rev = "unionMerge"
    /\ modal = "add"
    /\ Len(tasks) < MaxTasks
    /\ \E name \in (IF editMode THEN EditNames ELSE AddNames), skew \in ClockSkew :
          LET at       == now + skew
              found    == Find(wines, currentWineId)
              index    == FindIndex(wines, currentWineId)
              quantity == IF editMode THEN found.quantity ELSE 1
              wineData == Wine(IF editMode THEN currentWineId ELSE now,
                               name, quantity,
                               IF editMode THEN found.addedAt ELSE at)
              list     == IF editMode
                          THEN (IF index # -1
                                THEN Replaced(wines, index, wineData)
                                ELSE wines)
                          ELSE <<wineData>> \o wines
          IN  /\ at <= MaxTime
              /\ editMode => at = now
              /\ ~editMode => Len(wines) < MaxLen
              /\ now' = at
              /\ wines' = list
              /\ localStorage' = SaveToLocalStorage(list)
              /\ syncInProgress' = FlagAfterSave
              /\ tasks' = TasksAfterSave(list)
              /\ calls' = CallsOfSaveWines(list) \o <<Render>>
    /\ modal' = "none"
    /\ audit' = Submitted
    /\ UNCHANGED <<rev, storage, archive, firebaseEnabled, userId, db, currentWineId,
                   currentArchiveId, editMode, archiveRating, archiveRebuy,
                   remoteWines, remoteArchive, winesEvents, archiveEvents,
                   listening, otherListener>>
    /\ UNCHANGED fields
    /\ UNCHANGED attached

\* deleteCurrentWine of the union-merge revision: filter, saveToLocalStorage(),
\* then deleteWineFromFirebase(id) if firebaseEnabled, which is suspended at
\* `await ref(.../wines/<id>).remove()`
DeleteCurrentWineMerge ==
    /\ rev = "unionMerge"
    /\ modal = "delete"
    /\ Len(tasks) < MaxTasks
    /\ wines' = DeleteLocal
    /\ localStorage' = SaveToLocalStorage(DeleteLocal)
    /\ tasks' = IF firebaseEnabled /\ RemoteReady
                THEN Spawn(tasks, Task("remove", "wine.remove", currentWineId, EmptyMap))
                ELSE Disturb(tasks)
    /\ calls' = CallsOfStore
                   \o (IF firebaseEnabled /\ RemoteReady
                       THEN <<Call("wines.remove", syncInProgress, currentWineId)>>
                       ELSE << >>)
                   \o <<Render>>
    /\ modal' = "none"
    /\ audit' = [on |-> FALSE, op |-> "deleteCurrentWine", id |-> currentWineId,
                 wines |-> wines, archive |-> archive]
    /\ UNCHANGED <<rev, storage, now, archive, syncInProgress, firebaseEnabled, userId,
                   db, currentWineId, currentArchiveId, editMode, archiveRating,
                   archiveRebuy, remoteWines, remoteArchive, winesEvents,
                   archiveEvents, listening, otherListener>>
    /\ UNCHANGED fields
    /\ UNCHANGED attached

\* `await ref(.../wines/<id>).remove()` of the union-merge revision settles
RemoveSettled ==
    /\ rev = "unionMerge"
    /\ \E i \in DOMAIN tasks, ok \in BOOLEAN :
          /\ tasks[i].op = "remove"
          /\ IF ok
             THEN /\ Room(winesEvents)
                  /\ remoteWines' = RemoveChild(remoteWines, tasks[i].id)
                  /\ winesEvents' = Fanout(winesEvents, remoteWines')
             ELSE UNCHANGED <<remoteWines, winesEvents>>
          /\ tasks' = RemoveAt(tasks, i)
    /\ calls' = << >>
    /\ NoAudit
    /\ UNCHANGED <<rev, storage, now, wines, archive, syncInProgress,
                   firebaseEnabled, userId, db, currentWineId, currentArchiveId,
                   editMode, archiveRating, archiveRebuy, remoteArchive,
                   archiveEvents, listening, modal, localStorage, otherListener>>
    /\ UNCHANGED fields
    /\ UNCHANGED attached

(***************************************************************************)
(* analyzeWineLabel: the label scanner of the add form.  The four classes  *)
(* share its shape; the configuration test is `!this.apiKey` in app.js and *)
(* `!this.cloudFunctionsAvailable` in the Firebase-only revision.          *)
(***************************************************************************)
\* two of the five records of generateDemoWineData, by name and type
DemoWines ==
    {[name |-> "Grand Vin", type |-> "red"], [name |-> "Sauvignon Blanc", type |-> "white"]}

\* what callChatGPTVision returns: a record with null for unknown fields
VisionReplies == {[name |-> "Barolo", type |-> "white"], [name |-> NULL, type |-> NULL]}

\* what callChatGPTVision throws: a rejected fetch, `API error: <status>`,
\* the SyntaxError of JSON.parse
VisionErrors == {"Failed to fetch", "API error: 401", "API error: 429", "Unexpected token"}

\* how the awaited promise settles: fulfilled with a record or rejected with
\* an error
VisionOutcomes ==
    {[ok |-> TRUE, data |-> reply, error |-> ""] : reply \in VisionReplies}
    \cup {[ok |-> FALSE, data |-> EmptyMap, error |-> error] : error \in VisionErrors}

\* `data.field || fallback`
OrElse(value, fallback) == IF value \in {NULL, ""} THEN fallback ELSE value

\* populateForm(data)
PopulateForm(data) ==
    [name |-> OrElse(data.name, ""), type |-> OrElse(data.type, "red")]

\* variant: a catch block that falls back to the demo record
FormAfterErrorDemo(error) ==
    PopulateForm(CHOOSE demo \in DemoWines : TRUE)

\* the catch block of analyzeWineLabel: the indicator is hidden and a toast
\* is shown; the form is not touched
FormAfterError(error) == form

\* the toast the catch block picks from error.message
ErrorToast(error) ==
    CASE error = "API error: 401" -> "toast.unauthorized"
      [] error = "API error: 429" -> "toast.rateLimited"
      [] OTHER                    -> "toast.enterManually"

\* analyzeWineLabel(imageData) up to its first suspension: the 1500 ms timer
\* of the demo mode, or `await this.callChatGPTVision(imageData)`
AnalyzeWineLabel ==
    /\ modal = "add"
    /\ Len(tasks) < MaxTasks
    /\ tasks' = Spawn(tasks, Task("analyzeWineLabel",
                                  IF apiKey = NULL THEN "demoTimer" ELSE "vision",
                                  NoId, EmptyMap))
    /\ calls' = <<Call("indicator.show", syncInProgress, NoId)>>
    /\ audit' = [on |-> FALSE, op |-> "analyzeWineLabel", form |-> form]
    /\ UNCHANGED <<rev, storage, now, wines, archive, syncInProgress, firebaseEnabled,
                   userId, db, currentWineId, currentArchiveId, editMode,
                   archiveRating, archiveRebuy, remoteWines, remoteArchive,
                   winesEvents, archiveEvents, listening, modal, localStorage,
                   otherListener, attached, wineQuantity, form, apiKey>>

\* the demo mode's timer fires: generateDemoWineData picks a record with
\* Math.random and populateForm fills the form with it
DemoTimer ==
    /\ \E i \in DOMAIN tasks, demo \in DemoWines :
          /\ tasks[i].op = "analyzeWineLabel"
          /\ tasks[i].pc = "demoTimer"
          /\ tasks' = RemoveAt(tasks, i)
          /\ form' = PopulateForm(demo)
    /\ calls' = <<Call("toast.demoMode", syncInProgress, NoId)>>
    /\ audit' = [on |-> FALSE, op |-> "demoTimer", form |-> form]
    /\ UNCHANGED <<rev, storage, now, wines, archive, syncInProgress, firebaseEnabled,
                   userId, db, currentWineId, currentArchiveId, editMode,
                   archiveRating, archiveRebuy, remoteWines, remoteArchive,
                   winesEvents, archiveEvents, listening, modal, localStorage,
                   otherListener, attached, wineQuantity, apiKey>>

\* `await this.callChatGPTVision(imageData)` settles with a record, and the
\* try block goes on into populateForm, or with an error, and the catch
\* block runs
VisionSettled ==
    /\ \E i \in DOMAIN tasks, outcome \in VisionOutcomes :
          /\ tasks[i].op = "analyzeWineLabel"
          /\ tasks[i].pc = "vision"
          /\ tasks' = RemoveAt(tasks, i)
          /\ IF ~outcome.ok
             THEN /\ form' = FormAfterError(outcome.error)
                  /\ calls' = <<Call(ErrorToast(outcome.error), syncInProgress, NoId)>>
                  /\ audit' = [on |-> FALSE, op |-> "visionSettled", failed |-> TRUE,
                               form |-> form]
             ELSE /\ form' = PopulateForm(outcome.data)
                  /\ calls' = <<Call("toast.recognized", syncInProgress, NoId)>>
                  /\ audit' = [on |-> FALSE, op |-> "visionSettled", failed |-> FALSE,
                               form |-> form]
    /\ UNCHANGED <<rev, storage, now, wines, archive, syncInProgress, firebaseEnabled,
                   userId, db, currentWineId, currentArchiveId, editMode,
                   archiveRating, archiveRebuy, remoteWines, remoteArchive,
                   winesEvents, archiveEvents, listening, modal, localStorage,
                   otherListener, attached, wineQuantity, apiKey>>

(***************************************************************************)
(* The Firebase-only revision.                                             *)
(***************************************************************************)
Next ==
    \/ Tick
    \/ AuthSignedIn
    \/ AuthSignedOut
    \/ WinesValue
    \/ ArchiveValue
    \/ OtherClientSet
    \/ OtherClientRemove
    \/ OpenAddModal
    \/ OpenDetailModal
    \/ OpenArchiveDetail
    \/ CloseModal
    \/ EditCurrentWine
    \/ OpenDeleteModal
    \/ SetArchiveRating
    \/ SetRebuyOption
    \/ HandleFormSubmit
    \/ UpdateDetailQuantity
    \/ SaveSettled
    \/ SkipArchiveAndDelete
    \/ DeleteExistsSettled
    \/ DeleteRemoveSettled
    \/ DeleteVerifySettled
    \/ GraceTimer
    \/ ConfirmArchive
    \/ ArchiveSetSettled
    \/ RestoreWineFromArchive
    \/ RestorePushSettled
    \/ DeleteFromArchiveConfirm
    \/ ArchiveRemoveSettled

Spec == Init /\ [][Next]_vars


\* the wines path only: add, edit, delete, snapshots, other clients
NextSync ==
    \/ Tick
    \/ AuthSignedIn
    \/ WinesValue
    \/ OtherClientSet
    \/ OtherClientRemove
    \/ OpenAddModal
    \/ OpenDetailModal
    \/ CloseModal
    \/ EditCurrentWine
    \/ OpenDeleteModal
    \/ HandleFormSubmit
    \/ SaveSettled
    \/ SkipArchiveAndDelete
    \/ DeleteExistsSettled
    \/ DeleteRemoveSettled
    \/ DeleteVerifySettled
    \/ GraceTimer

SpecSync == Init /\ [][NextSync]_vars

(***************************************************************************)
(* Reconciliation started from a drawn state: a list in memory, a snapshot *)
(* about to be delivered, and (when the flag is set) the save that set it. *)
(***************************************************************************)
MaxId    == 3    \* drawn records have the ids 1..MaxId
MaxStamp == 2    \* drawn records have the timestamps 1..MaxStamp
MaxDrawn == 2    \* longest drawn list in memory

DrawnNames == {"a", "b"}

DrawnWines ==
    {Wine(id, name, 1, at) : id \in 1..MaxId, name \in DrawnNames, at \in 1..MaxStamp}

DrawnArchive ==
    {Archived(Wine(id, "a", 1, 1), 0, NULL, NULL, at) : id \in 1..MaxId, at \in 1..MaxStamp}

SeqsUpTo(S, n) == UNION {[1..k -> S] : k \in 0..n}

\* the values a path can have: each child stored under its own id
Snapshots(S) ==
    UNION {{f \in [K -> S] : \A k \in K : f[k].id = k} : K \in SUBSET (1..MaxId)}

\* the save in flight when the flag is set
SaveInFlight ==
    IF syncInProgress
    THEN <<Task("save", "set", NoId, WinesObject(wines))>>
    ELSE << >>

InitReconcile ==
    /\ now = 1
    /\ syncInProgress \in BOOLEAN
    /\ userId = User
    /\ db = "db"
    /\ currentWineId = NoId
    /\ currentArchiveId = NoId
    /\ editMode = FALSE
    /\ archiveRating = 0
    /\ archiveRebuy = NULL
    /\ listening = TRUE
    /\ modal = "none"
    /\ calls = << >>
    /\ audit = Idle
    /\ \/ /\ rev = "unionMerge"
          /\ firebaseEnabled \in BOOLEAN
          /\ syncInProgress => firebaseEnabled
          /\ storage \in StorageModes
          /\ wines \in SeqsUpTo(DrawnWines, MaxDrawn)
          /\ localStorage = CASE storage = "ok"    -> JSONStringify(wines)
                               [] storage = "quota" -> JSONStringify(WithoutImages(wines))
                               [] OTHER             -> NoItem
          /\ remoteWines \in Snapshots(DrawnWines)
          /\ winesEvents = <<remoteWines>>
          /\ archive = << >>
          /\ remoteArchive = EmptyMap
          /\ archiveEvents = << >>
       \/ /\ rev = "firebaseOnly"
          /\ firebaseEnabled = TRUE
          /\ storage = "ok"
          /\ localStorage = NoItem
          /\ \/ /\ wines \in SeqsUpTo(DrawnWines, 1)
                /\ remoteWines \in Snapshots(DrawnWines)
                /\ winesEvents = <<remoteWines>>
                /\ archive = << >>
                /\ remoteArchive = EmptyMap
                /\ archiveEvents = << >>
             \/ /\ archive \in SeqsUpTo(DrawnArchive, 1)
                /\ remoteArchive \in Snapshots(DrawnArchive)
                /\ archiveEvents = <<remoteArchive>>
                /\ wines = << >>
                /\ remoteWines = EmptyMap
                /\ winesEvents = << >>
    /\ tasks = SaveInFlight
    /\ otherListener = Detached
    /\ form = BlankForm
    /\ apiKey = NULL
    /\ attached = AttachedAt(rev, listening)
    /\ wineQuantity = <<"1">>

NextReconcile ==
    \/ WinesValueMerge
    \/ PushSettled
    \/ WinesValue
    \/ ArchiveValue
    \/ SaveSettled

SpecReconcile == InitReconcile /\ [][NextReconcile]_vars

(***************************************************************************)
(* The archive dialog started from a drawn state: the dialog is open on    *)
(* currentWineId, nothing is in flight.                                    *)
(***************************************************************************)
DrawnPlain == {Wine(id, "a", 1, 1) : id \in 1..MaxId}

InitArchive ==
    /\ rev = "firebaseOnly"
    /\ now = 1
    /\ syncInProgress = FALSE
    /\ db = "db"
    /\ firebaseEnabled \in BOOLEAN
    /\ userId = IF firebaseEnabled THEN User ELSE NULL
    /\ wines \in SeqsUpTo(DrawnPlain, MaxDrawn)
    /\ archive \in SeqsUpTo(DrawnArchive, MaxDrawn)
    /\ currentWineId \in 1..MaxId
    /\ currentArchiveId = NoId
    /\ editMode = FALSE
    /\ archiveRating \in {0} \cup Stars
    /\ archiveRebuy \in {NULL} \cup RebuyOptions
    /\ remoteWines \in {EmptyMap, WinesObject(wines)}
    /\ remoteArchive = WinesObject(archive)
    /\ winesEvents = << >>
    /\ archiveEvents = << >>
    /\ listening = TRUE
    /\ tasks = << >>
    /\ modal = "archive"
    /\ localStorage = NoItem
    /\ storage = "ok"
    /\ calls = << >>
    /\ audit = Idle
    /\ otherListener = Detached
    /\ form = BlankForm
    /\ apiKey = NULL
    /\ attached = AttachedAt(rev, listening)
    /\ wineQuantity = <<"1">>

NextArchive ==
    \/ ConfirmArchive
    \/ ArchiveSetSettled
    \/ DeleteExistsSettled
    \/ DeleteRemoveSettled
    \/ DeleteVerifySettled
    \/ GraceTimer
    \/ WinesValue
    \/ ArchiveValue

SpecArchive == InitArchive /\ [][NextArchive]_vars

(***************************************************************************)
(* The archive dialog started from the same drawn states, answered with    *)
(* "delete without archiving".                                             *)
(***************************************************************************)
NextDelete ==
    \/ SkipArchiveAndDelete
    \/ DeleteExistsSettled
    \/ DeleteRemoveSettled
    \/ DeleteVerifySettled
    \/ GraceTimer
    \/ WinesValue

SpecDelete == InitArchive /\ [][NextDelete]_vars

(***************************************************************************)
(* The archive detail dialog started from a drawn state: the dialog is     *)
(* open on currentArchiveId, nothing is in flight.                         *)
(***************************************************************************)
\* records made at the clock values 1..MaxTime
DrawnPast == {Wine(id, "a", 1, id) : id \in 1..MaxTime}

DrawnPastArchive == {Archived(w, 0, NULL, NULL, w.id) : w \in DrawnPast}

InitRestore ==
    /\ rev \in {"firebaseOnly", "loginGated"}
    /\ now \in 1..MaxTime
    /\ syncInProgress = FALSE
    /\ db = "db"
    /\ firebaseEnabled \in BOOLEAN
    /\ userId = IF firebaseEnabled THEN User ELSE NULL
    /\ wines \in SeqsUpTo(DrawnPast, 1)
    /\ archive \in SeqsUpTo(DrawnPastArchive, MaxDrawn)
    /\ currentWineId = NoId
    /\ currentArchiveId \in 1..MaxTime
    /\ editMode = FALSE
    /\ archiveRating = 0
    /\ archiveRebuy = NULL
    /\ remoteWines = WinesObject(wines)
    /\ remoteArchive = WinesObject(archive)
    /\ winesEvents = << >>
    /\ archiveEvents = << >>
    /\ listening = TRUE
    /\ tasks = << >>
    /\ modal = "archiveDetail"
    /\ localStorage = NoItem
    /\ storage = "ok"
    /\ calls = << >>
    /\ audit = Idle
    /\ otherListener = Detached
    /\ form = BlankForm
    /\ apiKey = NULL
    /\ attached = AttachedAt(rev, listening)
    /\ wineQuantity = <<"1">>

NextRestore ==
    \/ RestoreWineFromArchive
    \/ RestorePushSettled
    \/ DeleteFromArchiveConfirm
    \/ ArchiveRemoveSettled
    \/ RestoreWineFromArchiveGated
    \/ WinesValue
    \/ ArchiveValue

SpecRestore == InitRestore /\ [][NextRestore]_vars

(***************************************************************************)
(* The local cache started from a drawn state: a list whose records may    *)
(* carry an image, an item 'wineCellar' that is absent, not JSON, or an    *)
(* earlier save, and a localStorage that answers in one of StorageModes.   *)
(***************************************************************************)
DrawnImages == {NULL, "data:image/jpeg"}

DrawnStored ==
    {[Wine(id, "a", 1, id) EXCEPT !.image = img] : id \in 1..MaxId, img \in DrawnImages}

InitStorage ==
    /\ rev \in {"unionMerge", "localOnly"}
    /\ now = MaxTime
    /\ syncInProgress = FALSE
    /\ db = NULL
    /\ firebaseEnabled = FALSE
    /\ userId = NULL
    /\ wines \in {l \in SeqsUpTo(DrawnStored, MaxDrawn) :
                     Cardinality(Ids(l)) = Len(l)}
    /\ archive = << >>
    /\ currentWineId = NoId
    /\ currentArchiveId = NoId
    /\ editMode = FALSE
    /\ archiveRating = 0
    /\ archiveRebuy = NULL
    /\ remoteWines = EmptyMap
    /\ remoteArchive = EmptyMap
    /\ winesEvents = << >>
    /\ archiveEvents = << >>
    /\ listening = FALSE
    /\ tasks = << >>
    /\ modal = "none"
    /\ storage \in StorageModes
    /\ localStorage \in {NoItem, Corrupt}
                           \cup {JSONStringify(l) : l \in SeqsUpTo(DrawnStored, 1)}
    /\ otherListener = Detached
    /\ form = BlankForm
    /\ apiKey = NULL
    /\ attached = AttachedAt(rev, listening)
    /\ wineQuantity = <<"1">>
    /\ calls = << >>
    /\ audit = Idle

NextStorage ==
    \/ StoreWines
    \/ LoadWines

SpecStorage == InitStorage /\ [][NextStorage]_vars

(***************************************************************************)
(* The detail dialog started from a drawn state, for the edit form: the    *)
(* list holds records of different names and times, the remote store holds *)
(* the same records, and another client may remove one of them.            *)
(***************************************************************************)
InitEdit ==
    /\ rev = "firebaseOnly"
    /\ now = MaxTime
    /\ syncInProgress = FALSE
    /\ db = "db"
    /\ firebaseEnabled = TRUE
    /\ userId = User
    /\ wines \in {l \in SeqsUpTo(DrawnWines, MaxDrawn) :
                     Cardinality(Ids(l)) = Len(l)}
    /\ archive = << >>
    /\ currentWineId \in Ids(wines)
    /\ currentArchiveId = NoId
    /\ editMode = FALSE
    /\ archiveRating = 0
    /\ archiveRebuy = NULL
    /\ remoteWines = WinesObject(wines)
    /\ remoteArchive = EmptyMap
    /\ winesEvents = << >>
    /\ archiveEvents = << >>
    /\ listening = TRUE
    /\ tasks = << >>
    /\ modal = "detail"
    /\ localStorage = NoItem
    /\ storage = "ok"
    /\ otherListener = Detached
    /\ form = BlankForm
    /\ apiKey = NULL
    /\ attached = AttachedAt(rev, listening)
    /\ wineQuantity = <<"1">>
    /\ calls = << >>
    /\ audit = Idle

NextEdit ==
    \/ EditCurrentWine
    \/ HandleFormSubmit
    \/ SaveSettled
    \/ CloseModal
    \/ OpenDetailModal
    \/ OtherClientRemove
    \/ WinesValue

SpecEdit == InitEdit /\ [][NextEdit]_vars

(***************************************************************************)
(* Identity changes from construction: sign-in, sign-out, a second         *)
(* account, the listeners, and another client writing to User's wines.     *)
(***************************************************************************)
NextIdentity ==
    \/ AuthSignedIn
    \/ AuthSignedInOther
    \/ AuthSignedOut
    \/ SignOut
    \/ SignOutSettled
    \/ WinesValue
    \/ ArchiveValue
    \/ OtherWinesValue
    \/ OtherArchiveValue
    \/ OtherClientSet
    \/ OtherClientRemove

SpecIdentity == Init /\ [][NextIdentity]_vars

(***************************************************************************)
(* The detail dialog started from a drawn state: every record has a        *)
(* quantity of at least 1, the dialog is open on currentWineId, and only   *)
(* the quantity buttons are pressed.                                       *)
(***************************************************************************)
DrawnStock == {Wine(id, "a", q, id) : id \in 1..MaxId, q \in 1..MaxQuantity}

InitQuantity ==
    /\ rev \in {"firebaseOnly", "unionMerge"}
    /\ now = MaxTime
    /\ syncInProgress = FALSE
    /\ db = "db"
    /\ firebaseEnabled \in BOOLEAN
    /\ userId = IF firebaseEnabled THEN User ELSE NULL
    /\ wines \in {l \in SeqsUpTo(DrawnStock, MaxDrawn) :
                     Cardinality(Ids(l)) = Len(l)}
    /\ archive = << >>
    /\ currentWineId \in 1..MaxId
    /\ currentArchiveId = NoId
    /\ editMode = FALSE
    /\ archiveRating = 0
    /\ archiveRebuy = NULL
    /\ remoteWines = WinesObject(wines)
    /\ remoteArchive = EmptyMap
    /\ winesEvents = << >>
    /\ archiveEvents = << >>
    /\ listening = FALSE
    /\ tasks = << >>
    /\ modal = "detail"
    /\ storage \in StorageModes
    /\ localStorage = CASE storage = "ok"    -> JSONStringify(wines)
                        [] storage = "quota" -> JSONStringify(WithoutImages(wines))
                        [] OTHER             -> NoItem
    /\ calls = << >>
    /\ audit = Idle
    /\ otherListener = Detached
    /\ form = BlankForm
    /\ apiKey = NULL
    /\ attached = AttachedAt(rev, listening)
    /\ wineQuantity = <<"1">>

NextQuantity ==
    \/ UpdateDetailQuantity
    \/ UpdateDetailQuantityMerge
    \/ SaveSettled

SpecQuantity == InitQuantity /\ [][NextQuantity]_vars

(***************************************************************************)
(* The local mutations of the union-merge revision from a drawn state: a   *)
(* dialog is open (the form in add or edit mode, the detail dialog, the    *)
(* delete dialog), the remote store is enabled or not.                     *)
(***************************************************************************)
InitMutate ==
    /\ rev = "unionMerge"
    /\ now = MaxTime
    /\ syncInProgress = FALSE
    /\ db = "db"
    /\ firebaseEnabled \in BOOLEAN
    /\ userId = IF firebaseEnabled THEN User ELSE NULL
    /\ wines \in {l \in SeqsUpTo(DrawnStock, 1) : Cardinality(Ids(l)) = Len(l)}
    /\ archive = << >>
    /\ currentWineId \in 1..MaxId
    /\ currentArchiveId = NoId
    /\ modal \in {"add", "detail", "delete"}
    /\ editMode \in {e \in BOOLEAN : e => modal = "add" /\ Found(wines, currentWineId)}
    /\ archiveRating = 0
    /\ archiveRebuy = NULL
    /\ remoteWines = WinesObject(wines)
    /\ remoteArchive = EmptyMap
    /\ winesEvents = << >>
    /\ archiveEvents = << >>
    /\ listening = FALSE
    /\ tasks = << >>
    /\ storage \in StorageModes
    /\ localStorage = CASE storage = "ok"    -> JSONStringify(wines)
                        [] storage = "quota" -> JSONStringify(WithoutImages(wines))
                        [] OTHER             -> NoItem
    /\ otherListener = Detached
    /\ form = BlankForm
    /\ apiKey = NULL
    /\ attached = AttachedAt(rev, listening)
    /\ wineQuantity = <<"1">>
    /\ calls = << >>
    /\ audit = Idle

NextMutate ==
    \/ HandleFormSubmitMerge
    \/ UpdateDetailQuantityMerge
    \/ DeleteCurrentWineMerge
    \/ SaveSettled
    \/ RemoveSettled

SpecMutate == InitMutate /\ [][NextMutate]_vars

(***************************************************************************)
(* skipArchiveAndDelete in the two revisions whose deleteCurrentWine sets   *)
(* the flag, with timers that fire, remote calls that settle and snapshots *)
(* that are delivered.                                                     *)
(***************************************************************************)
InitFlag ==
    /\ rev \in {"firebaseOnly", "loginGated"}
    /\ now = 1
    /\ syncInProgress = FALSE
    /\ db = "db"
    /\ firebaseEnabled \in BOOLEAN
    /\ userId = IF firebaseEnabled THEN User ELSE NULL
    /\ wines \in SeqsUpTo(DrawnPlain, MaxDrawn)
    /\ archive = << >>
    /\ currentWineId \in 1..MaxId
    /\ currentArchiveId = NoId
    /\ editMode = FALSE
    /\ archiveRating = 0
    /\ archiveRebuy = NULL
    /\ remoteWines \in {EmptyMap, WinesObject(wines)}
    /\ remoteArchive = EmptyMap
    /\ winesEvents = << >>
    /\ archiveEvents = << >>
    /\ listening = TRUE
    /\ tasks = << >>
    /\ modal = "archive"
    /\ localStorage = NoItem
    /\ storage = "ok"
    /\ calls = << >>
    /\ audit = Idle
    /\ otherListener = Detached
    /\ form = BlankForm
    /\ apiKey = NULL
    /\ attached = AttachedAt(rev, listening)
    /\ wineQuantity = <<"1">>

NextFlag ==
    \/ SkipArchiveAndDelete
    \/ SkipArchiveAndDeleteGated
    \/ DeleteExistsSettled
    \/ DeleteRemoveSettled
    \/ DeleteVerifySettled
    \/ GraceTimer
    \/ WinesValue

\* the event loop runs every timer that is due and every settled promise's
\* continuation, and the remote store delivers every snapshot
FairFlag ==
    /\ WF_vars(DeleteExistsSettled)
    /\ WF_vars(DeleteRemoveSettled)
    /\ WF_vars(DeleteVerifySettled)
    /\ WF_vars(GraceTimer)
    /\ WF_vars(WinesValue)

SpecFlag == InitFlag /\ [][NextFlag]_vars /\ FairFlag

(***************************************************************************)
(* One client that deletes a record while a second client writes to the    *)
(* same account, with timers that fire, remote calls that settle and       *)
(* snapshots that are delivered.                                           *)
(***************************************************************************)
InitConverge ==
    /\ rev = "firebaseOnly"
    /\ now = 1
    /\ syncInProgress = FALSE
    /\ db = "db"
    /\ firebaseEnabled = TRUE
    /\ userId = User
    /\ wines \in SeqsUpTo(DrawnPlain, MaxDrawn)
    /\ Cardinality(Ids(wines)) = Len(wines)
    /\ archive = << >>
    /\ currentWineId \in 1..MaxId
    /\ currentArchiveId = NoId
    /\ editMode = FALSE
    /\ archiveRating = 0
    /\ archiveRebuy = NULL
    /\ remoteWines = WinesObject(wines)
    /\ remoteArchive = EmptyMap
    /\ winesEvents = << >>
    /\ archiveEvents = << >>
    /\ listening = TRUE
    /\ tasks = << >>
    /\ modal = "archive"
    /\ localStorage = NoItem
    /\ storage = "ok"
    /\ calls = << >>
    /\ audit = Idle
    /\ otherListener = Detached
    /\ form = BlankForm
    /\ apiKey = NULL
    /\ attached = AttachedAt(rev, listening)
    /\ wineQuantity = <<"1">>

NextConverge ==
    \/ SkipArchiveAndDelete
    \/ DeleteExistsSettled
    \/ DeleteRemoveSettled
    \/ DeleteVerifySettled
    \/ GraceTimer
    \/ OtherClientSet
    \/ OtherClientRemove
    \/ WinesValue

SpecConverge == InitConverge /\ [][NextConverge]_vars /\ FairFlag

(***************************************************************************)
(* Two clients of one account: this one adds records and changes           *)
(* quantities, the second one writes records of its own.  Neither deletes. *)
(***************************************************************************)
InitClients ==
    /\ rev = "firebaseOnly"
    /\ now = 1
    /\ syncInProgress = FALSE
    /\ db = "db"
    /\ firebaseEnabled = TRUE
    /\ userId = User
    /\ wines = << >>
    /\ archive = << >>
    /\ currentWineId = NoId
    /\ currentArchiveId = NoId
    /\ editMode = FALSE
    /\ archiveRating = 0
    /\ archiveRebuy = NULL
    /\ remoteWines = EmptyMap
    /\ remoteArchive = EmptyMap
    /\ winesEvents = << >>
    /\ archiveEvents = << >>
    /\ listening = TRUE
    /\ tasks = << >>
    /\ modal = "none"
    /\ localStorage = NoItem
    /\ storage = "ok"
    /\ calls = << >>
    /\ audit = Idle
    /\ otherListener = Detached
    /\ form = BlankForm
    /\ apiKey = NULL
    /\ attached = AttachedAt(rev, listening)
    /\ wineQuantity = <<"1">>

NextClients ==
    \/ Tick
    \/ OpenAddModal
    \/ HandleFormSubmit
    \/ OpenDetailModal
    \/ UpdateDetailQuantity
    \/ CloseModal
    \/ SaveSettled
    \/ OtherClientSet
    \/ WinesValue

SpecClients == InitClients /\ [][NextClients]_vars

(***************************************************************************)
(* The union-merge revision left alone: a drawn local list, a drawn remote *)
(* collection whose first snapshot is on its way, no user action; every    *)
(* snapshot is delivered and every push settles.                           *)
(***************************************************************************)
InitEcho ==
    /\ rev = "unionMerge"
    /\ now = 1
    /\ syncInProgress = FALSE
    /\ db = "db"
    /\ firebaseEnabled = TRUE
    /\ userId = User
    /\ wines \in SeqsUpTo(DrawnPlain, MaxDrawn)
    /\ Cardinality(Ids(wines)) = Len(wines)
    /\ archive = << >>
    /\ currentWineId = NoId
    /\ currentArchiveId = NoId
    /\ editMode = FALSE
    /\ archiveRating = 0
    /\ archiveRebuy = NULL
    /\ remoteWines \in Snapshots(DrawnPlain)
    /\ remoteArchive = EmptyMap
    /\ winesEvents = <<remoteWines>>
    /\ archiveEvents = << >>
    /\ listening = TRUE
    /\ tasks = << >>
    /\ modal = "none"
    /\ localStorage = JSONStringify(wines)
    /\ storage = "ok"
    /\ calls = << >>
    /\ audit = Idle
    /\ otherListener = Detached
    /\ form = BlankForm
    /\ apiKey = NULL
    /\ attached = AttachedAt(rev, listening)
    /\ wineQuantity = <<"1">>

NextEcho ==
    \/ WinesValueMerge
    \/ PushSettled

\* every snapshot on its way is delivered, and every push settles
FairEcho == []<>(winesEvents = << >>) /\ WF_vars(PushSettled)

SpecEcho == InitEcho /\ [][NextEcho]_vars /\ FairEcho

(***************************************************************************)
(* The union-merge revision with the delete dialog open on a record that   *)
(* is in this.wines and in the remote collection; a snapshot of the        *)
(* collection may still be on its way.                                     *)
(***************************************************************************)
InitPermanent ==
    /\ rev = "unionMerge"
    /\ now = 1
    /\ syncInProgress = FALSE
    /\ db = "db"
    /\ firebaseEnabled = TRUE
    /\ userId = User
    /\ wines \in {l \in SeqsUpTo(DrawnPlain, MaxDrawn) : Cardinality(Ids(l)) = Len(l)}
    /\ archive = << >>
    /\ currentWineId \in Ids(wines)
    /\ currentArchiveId = NoId
    /\ editMode = FALSE
    /\ archiveRating = 0
    /\ archiveRebuy = NULL
    /\ remoteWines = WinesObject(wines)
    /\ remoteArchive = EmptyMap
    /\ winesEvents \in {<< >>, <<remoteWines>>}
    /\ archiveEvents = << >>
    /\ listening = TRUE
    /\ tasks = << >>
    /\ modal = "delete"
    /\ storage = "ok"
    /\ localStorage = JSONStringify(wines)
    /\ calls = << >>
    /\ audit = Idle
    /\ otherListener = Detached
    /\ form = BlankForm
    /\ apiKey = NULL
    /\ attached = AttachedAt(rev, listening)
    /\ wineQuantity = <<"1">>

NextPermanent ==
    \/ DeleteCurrentWineMerge
    \/ RemoveSettled
    \/ WinesValueMerge
    \/ PushSettled

SpecPermanent == InitPermanent /\ [][NextPermanent]_vars

(***************************************************************************)
(* The archive dialog from the drawn states in which no id occurs twice,   *)
(* neither within this.wines, nor within this.archive, nor across them.    *)
(***************************************************************************)
InitDistinct ==
    /\ InitArchive
    /\ Cardinality(Ids(wines)) = Len(wines)
    /\ Cardinality(Ids(archive)) = Len(archive)
    /\ Ids(wines) \cap Ids(archive) = {}

SpecDistinct == InitDistinct /\ [][NextArchive]_vars

(***************************************************************************)
(* Identity changes in which the sign-in callback is also called again for *)
(* the user who is already signed in.                                      *)
(***************************************************************************)
NextListeners ==
    \/ AuthSignedIn
    \/ AuthSignedInAgain
    \/ AuthSignedInOther
    \/ AuthSignedOut
    \/ SignOut
    \/ SignOutSettled
    \/ WinesValue
    \/ ArchiveValue
    \/ OtherWinesValue
    \/ OtherArchiveValue
    \/ OtherClientSet
    \/ OtherClientRemove

SpecListeners == Init /\ [][NextListeners]_vars

(***************************************************************************)
(* The local mutations while the remote store is not enabled: it is not    *)
(* configured (db is null) or nobody is signed in.  A dialog is open on a  *)
(* drawn cellar and archive; the Firebase-only and the union-merge         *)
(* revision.                                                               *)
(***************************************************************************)
InitOffline ==
    /\ rev \in {"firebaseOnly", "unionMerge"}
    /\ now = 1
    /\ syncInProgress = FALSE
    /\ db \in {"db", NULL}
    /\ firebaseEnabled = FALSE
    /\ userId = NULL
    /\ wines \in {l \in SeqsUpTo(DrawnStock, 1) : Cardinality(Ids(l)) = Len(l)}
    /\ archive \in (IF rev = "firebaseOnly" THEN SeqsUpTo(DrawnArchive, 1) ELSE {<< >>})
    /\ currentWineId \in 1..MaxId
    /\ currentArchiveId \in 1..MaxId
    /\ modal \in (IF rev = "firebaseOnly"
                  THEN {"add", "detail", "archive", "archiveDetail"}
                  ELSE {"add", "detail", "delete"})
    /\ editMode \in {e \in BOOLEAN : e => modal = "add" /\ Found(wines, currentWineId)}
    /\ archiveRating = 0
    /\ archiveRebuy = NULL
    /\ remoteWines = EmptyMap
    /\ remoteArchive = EmptyMap
    /\ winesEvents = << >>
    /\ archiveEvents = << >>
    /\ listening = FALSE
    /\ tasks = << >>
    /\ storage = "ok"
    /\ localStorage = IF rev = "unionMerge" THEN JSONStringify(wines) ELSE NoItem
    /\ calls = << >>
    /\ audit = Idle
    /\ otherListener = Detached
    /\ form = BlankForm
    /\ apiKey = NULL
    /\ attached = AttachedAt(rev, listening)
    /\ wineQuantity = IF editMode THEN ToText(Find(wines, currentWineId).quantity)
                                  ELSE ToText(1)

NextOffline ==
    \/ HandleFormSubmit
    \/ UpdateDetailQuantity
    \/ SkipArchiveAndDelete
    \/ ConfirmArchive
    \/ RestoreWineFromArchive
    \/ DeleteFromArchiveConfirm
    \/ GraceTimer
    \/ HandleFormSubmitMerge
    \/ UpdateDetailQuantityMerge
    \/ DeleteCurrentWineMerge

SpecOffline == InitOffline /\ [][NextOffline]_vars

(***************************************************************************)
(* The three dialogs in a row: the add form, the archive dialog and the    *)
(* archive detail's restore button, signed in, from an empty archive and a *)
(* cellar of at most one record, made at the time the scenario starts.     *)
(***************************************************************************)
DrawnCellar == {Wine(1, "a", q, 1) : q \in 1..MaxQuantity}

InitScenario ==
    /\ rev = "firebaseOnly"
    /\ now = 1
    /\ syncInProgress = FALSE
    /\ db = "db"
    /\ firebaseEnabled = TRUE
    /\ userId = User
    /\ wines \in SeqsUpTo(DrawnCellar, 1)
    /\ archive = << >>
    /\ currentWineId = NoId
    /\ currentArchiveId = NoId
    /\ editMode = FALSE
    /\ archiveRating = 0
    /\ archiveRebuy = NULL
    /\ remoteWines = WinesObject(wines)
    /\ remoteArchive = WinesObject(archive)
    /\ winesEvents = << >>
    /\ archiveEvents = << >>
    /\ listening = TRUE
    /\ tasks = << >>
    /\ modal = "none"
    /\ localStorage = NoItem
    /\ storage = "ok"
    /\ calls = << >>
    /\ audit = Idle
    /\ otherListener = Detached
    /\ form = BlankForm
    /\ apiKey = NULL
    /\ attached = AttachedAt(rev, listening)
    /\ wineQuantity = <<"1">>

\* nothing of an earlier step is left: no method suspended, no timer pending,
\* no snapshot undelivered
Settled == tasks = << >> /\ winesEvents = << >> /\ archiveEvents = << >>

\* the user opens the next dialog once the previous step has settled, and
\* adds and archives while the archive is still empty
OpenAddModalSettled == Settled /\ archive = << >> /\ OpenAddModal

OpenDetailModalSettled == Settled /\ archive = << >> /\ OpenDetailModal

OpenArchiveDetailSettled == Settled /\ OpenArchiveDetail

\* the dialogs' buttons are pressed once, not again while the method runs
SetArchiveRatingSettled == Settled /\ SetArchiveRating

SetRebuyOptionSettled == Settled /\ SetRebuyOption

ConfirmArchiveSettled == Settled /\ ConfirmArchive

RestoreWineFromArchiveSettled == Settled /\ RestoreWineFromArchive

NextScenario ==
    \/ Tick
    \/ OpenAddModalSettled
    \/ HandleFormSubmit
    \/ SaveSettled
    \/ OpenDetailModalSettled
    \/ OpenDeleteModal
    \/ SetArchiveRatingSettled
    \/ SetRebuyOptionSettled
    \/ ConfirmArchiveSettled
    \/ ArchiveSetSettled
    \/ DeleteExistsSettled
    \/ DeleteRemoveSettled
    \/ DeleteVerifySettled
    \/ GraceTimer
    \/ OpenArchiveDetailSettled
    \/ RestoreWineFromArchiveSettled
    \/ RestorePushSettled
    \/ ArchiveRemoveSettled
    \/ WinesValue
    \/ ArchiveValue

SpecScenario == InitScenario /\ [][NextScenario]_vars

(***************************************************************************)
(* The form filled in and submitted: the quantity field is typed into or   *)
(* stepped with its two buttons, for a new record and for an edit; a       *)
(* dialog is opened once the previous write has settled.                   *)
(***************************************************************************)
InitForm ==
    /\ rev = "firebaseOnly"
    /\ now = 1
    /\ syncInProgress = FALSE
    /\ db = "db"
    /\ firebaseEnabled = TRUE
    /\ userId = User
    /\ wines \in SeqsUpTo(DrawnStock, 1)
    /\ archive = << >>
    /\ currentWineId = NoId
    /\ currentArchiveId = NoId
    /\ editMode = FALSE
    /\ archiveRating = 0
    /\ archiveRebuy = NULL
    /\ remoteWines = WinesObject(wines)
    /\ remoteArchive = EmptyMap
    /\ winesEvents = << >>
    /\ archiveEvents = << >>
    /\ listening = TRUE
    /\ tasks = << >>
    /\ modal = "none"
    /\ localStorage = NoItem
    /\ storage = "ok"
    /\ calls = << >>
    /\ audit = Idle
    /\ otherListener = Detached
    /\ form = BlankForm
    /\ apiKey = NULL
    /\ attached = AttachedAt(rev, listening)
    /\ wineQuantity = <<"1">>

NextForm ==
    \/ Tick
    \/ OpenAddModalSettled
    \/ OpenDetailModalSettled
    \/ EditCurrentWine
    \/ CloseModal
    \/ TypeQuantity
    \/ QuantityButton
    \/ HandleFormSubmit
    \/ SaveSettled
    \/ WinesValue

SpecForm == InitForm /\ [][NextForm]_vars

(***************************************************************************)
(* The archive dialog opened, answered and cancelled for one record after  *)
(* another, with the first and the last star and every rebuy button; the   *)
(* buttons are pressed once the previous archiving has settled.            *)
(***************************************************************************)
InitDialog ==
    /\ rev = "firebaseOnly"
    /\ now = 1
    /\ syncInProgress = FALSE
    /\ db = "db"
    /\ firebaseEnabled = TRUE
    /\ userId = User
    /\ wines = <<Wine(2, "a", 1, 1), Wine(1, "a", 1, 1)>>
    /\ archive = << >>
    /\ currentWineId = NoId
    /\ currentArchiveId = NoId
    /\ editMode = FALSE
    /\ archiveRating = 0
    /\ archiveRebuy = NULL
    /\ remoteWines = WinesObject(wines)
    /\ remoteArchive = EmptyMap
    /\ winesEvents = << >>
    /\ archiveEvents = << >>
    /\ listening = TRUE
    /\ tasks = << >>
    /\ modal = "none"
    /\ localStorage = NoItem
    /\ storage = "ok"
    /\ calls = << >>
    /\ audit = Idle
    /\ otherListener = Detached
    /\ form = BlankForm
    /\ apiKey = NULL
    /\ attached = AttachedAt(rev, listening)
    /\ wineQuantity = <<"1">>

\* a card of the list is clicked once nothing is in flight
OpenDetailModalAtRest == Settled /\ OpenDetailModal

\* a star or a rebuy button is clicked before the dialog is answered
SetArchiveRatingAtRest == Settled /\ SetArchiveRatingEnds

SetRebuyOptionAtRest == Settled /\ SetRebuyOptionAny

OpenDeleteModalAtRest == Settled /\ OpenDeleteModal

CloseModalAtRest == Settled /\ CloseModal

NextDialog ==
    \/ OpenDetailModalAtRest
    \/ OpenDeleteModalAtRest
    \/ CloseModalAtRest
    \/ SetArchiveRatingAtRest
    \/ SetRebuyOptionAtRest
    \/ ConfirmArchiveSettled
    \/ ArchiveSetSettled
    \/ DeleteExistsSettled
    \/ DeleteRemoveSettled
    \/ DeleteVerifySettled
    \/ GraceTimer
    \/ WinesValue
    \/ ArchiveValue

SpecDialog == InitDialog /\ [][NextDialog]_vars

(***************************************************************************)
(* The label scanner started with the add form open, in any of the four    *)
(* classes, with and without a key, on a blank or a hand-filled form.      *)
(***************************************************************************)
DrawnForms == {BlankForm, [name |-> "typed", type |-> "red"]}

InitVision ==
    /\ rev \in {"firebaseOnly", "unionMerge", "loginGated", "localOnly"}
    /\ now = 1
    /\ syncInProgress = FALSE
    /\ db = NULL
    /\ firebaseEnabled = FALSE
    /\ userId = NULL
    /\ wines = << >>
    /\ archive = << >>
    /\ currentWineId = NoId
    /\ currentArchiveId = NoId
    /\ editMode = FALSE
    /\ archiveRating = 0
    /\ archiveRebuy = NULL
    /\ remoteWines = EmptyMap
    /\ remoteArchive = EmptyMap
    /\ winesEvents = << >>
    /\ archiveEvents = << >>
    /\ listening = FALSE
    /\ tasks = << >>
    /\ modal = "add"
    /\ localStorage = NoItem
    /\ storage = "ok"
    /\ calls = << >>
    /\ audit = Idle
    /\ otherListener = Detached
    /\ form \in DrawnForms
    /\ apiKey \in {NULL, "key"}
    /\ attached = AttachedAt(rev, listening)
    /\ wineQuantity = <<"1">>

NextVision ==
    \/ AnalyzeWineLabel
    \/ DemoTimer
    \/ VisionSettled

SpecVision == InitVision /\ [][NextVision]_vars

(***************************************************************************)
(* Properties.                                                             *)
(***************************************************************************)
\* the last step was the union-merge callback calling mergeWines
Merging ==
    /\ rev = "unionMerge"
    /\ audit.op = "winesValue"
    /\ ~audit.gate
    /\ DOMAIN audit.data # {}

\* the last step was the Firebase-only wines callback processing a snapshot
Replacing ==
    /\ rev = "firebaseOnly"
    /\ audit.op = "winesValue"
    /\ ~audit.gate

\* the deleteCurrentWine suspended as tasks[i] removed record X = tasks[i].id
\* with no other local mutation pending when it started or started since,
\* its grace timer has not fired, and the listener has just returned from a
\* snapshot that contains X
EchoOf(i) ==
    /\ rev = "firebaseOnly"
    /\ audit.op = "winesValue"
    /\ tasks[i].op = "delete"
    /\ tasks[i].quiet
    /\ tasks[i].id \in DOMAIN audit.data

\* C1: a snapshot that still contains X, delivered before the grace timer of
\* the deleteCurrentWine that removed X fires, with no other local mutation
\* in flight, leaves X out of this.wines
EchoSuppressed ==
    \A i \in DOMAIN tasks : EchoOf(i) => tasks[i].id \notin Ids(wines)

\* C1, reached: the snapshot with X arrives while the remote remove of X is
\* awaited, and X stays out
EchoSuppressedSeen ==
    \E i \in DOMAIN tasks :
        /\ EchoOf(i)
        /\ tasks[i].pc = "remove"
        /\ tasks[i].id \notin Ids(wines)

\* the remote writes of the call log
RemoteWrites == {"wines.set", "wine.set", "wines.remove", "archive.set", "archive.remove"}

\* C2: every remote write (full replace, point set, point delete, archive
\* set, archive delete) is issued while syncInProgress is already true
WritesGated ==
    \A i \in DOMAIN calls : calls[i].fn \in RemoteWrites => calls[i].gate

\* the remote writes of the wines path that have not settled
WritesInFlight(ts) == Cardinality({i \in DOMAIN ts : ts[i].pc \in {"set", "remove"}})

\* C3: the step in which a remote write settles never takes syncInProgress
\* from true to false
FlagOutlivesWrite ==
    [][WritesInFlight(tasks') < WritesInFlight(tasks) => (syncInProgress => syncInProgress')]_vars

\* C4: syncInProgress is true as long as a deleteCurrentWine awaits its
\* deleteWineFromFirebase, whatever else completes in between
FlagHeldDuringDelete ==
    \A i \in DOMAIN tasks :
        (tasks[i].op = "delete" /\ tasks[i].pc \in {"exists", "remove", "verify"})
            => syncInProgress

\* C5: a snapshot delivered to the wines or the archive callback while
\* syncInProgress is true leaves this.wines and this.archive as they were
\* and renders nothing
GateClosed ==
    (audit.op \in {"winesValue", "archiveValue"} /\ audit.gate)
        => /\ wines = audit.wines
           /\ archive = audit.archive
           /\ calls = << >>

\* C5, reached: the flag was set and the ignored snapshot held other ids than
\* this.wines
GateClosedSeen ==
    /\ audit.op = "winesValue"
    /\ audit.gate
    /\ DOMAIN audit.data # Ids(wines)
    /\ wines = audit.wines

\* C6: after mergeWines the ids are those of the local list and of the
\* snapshot, each once; an id of the snapshot carries the snapshot's record,
\* any other id carries a record of the local list
UnionMerge ==
    Merging =>
        LET L == audit.wines
            R == audit.data
        IN  /\ Ids(wines) = Ids(L) \cup DOMAIN R
            /\ \A i, j \in DOMAIN wines : wines[i].id = wines[j].id => i = j
            /\ \A i \in DOMAIN wines :
                  IF wines[i].id \in DOMAIN R
                  THEN wines[i] = R[wines[i].id]
                  ELSE \E k \in DOMAIN L : L[k] = wines[i]

\* C6, reached: local = {A, B}, remote = {B', C} with B' # B gave three
\* records, B' among them
UnionMergeSeen ==
    /\ Merging
    /\ Len(wines) = 3
    /\ \E a, b \in DOMAIN audit.wines :
          /\ audit.wines[a].id \notin DOMAIN audit.data
          /\ audit.wines[b].id \in DOMAIN audit.data
          /\ audit.wines[b] # audit.data[audit.wines[b].id]
          /\ \E i \in DOMAIN wines : wines[i] = audit.data[audit.wines[b].id]
    /\ \E c \in DOMAIN audit.data : c \notin Ids(audit.wines)

\* how often the call log holds a pushWineToFirebase of the record id
Pushes(id) ==
    Cardinality({i \in DOMAIN calls :
                    calls[i].fn = "pushWineToFirebase" /\ calls[i].id = id})

\* how many records of a list carry the id
Copies(list, id) == Cardinality({k \in DOMAIN list : list[k].id = id})

\* C7: one mergeWines call makes one pushWineToFirebase call for each local
\* record whose id the snapshot lacks and none for an id the snapshot holds;
\* before it returns (before the render that follows it) it calls
\* saveToLocalStorage, which leaves the merged list in the item when setItem
\* accepts it and the merged list without images when only that is accepted
PushOncePerLocalOnly ==
    Merging =>
        /\ \A id \in Ids(audit.wines) \cup DOMAIN audit.data :
              Pushes(id) = IF id \in DOMAIN audit.data
                           THEN 0
                           ELSE Copies(audit.wines, id)
        /\ \A i \in DOMAIN calls :
              calls[i].fn = "pushWineToFirebase" => calls[i].id \in Ids(audit.wines)
        /\ \E k \in DOMAIN calls :
              /\ calls[k].fn = "localStorage.setItem"
              /\ \A j \in DOMAIN calls : calls[j].fn = "renderWineList" => k < j
        /\ storage = "ok" => JSONParse(localStorage) = wines
        /\ storage = "quota" =>
              JSONParse(localStorage) = [i \in DOMAIN wines |->
                                           [wines[i] EXCEPT !.image = NULL]]

\* C7, reached: one local record was pushed, another was not because the
\* snapshot held its id, and the cache holds the merged list
PushOncePerLocalOnlySeen ==
    /\ Merging
    /\ storage = "ok"
    /\ JSONParse(localStorage) = wines
    /\ JSONParse(localStorage) # audit.wines
    /\ \E a, b \in Ids(audit.wines) :
          /\ Pushes(a) = 1
          /\ b \in DOMAIN audit.data
          /\ Pushes(b) = 0

\* C8: after the wines callback has processed a snapshot, this.wines holds
\* the snapshot's records and nothing else, whatever it held before
RemoteAuthoritative ==
    Replacing =>
        /\ Ids(wines) = DOMAIN audit.data
        /\ Len(wines) = Cardinality(DOMAIN audit.data)
        /\ \A i \in DOMAIN wines : wines[i] = audit.data[wines[i].id]

\* C8, reached: a non-empty snapshot replaced a list that held a record whose
\* id the snapshot lacks
RemoteAuthoritativeSeen ==
    /\ Replacing
    /\ DOMAIN audit.data # {}
    /\ \E k \in DOMAIN audit.wines : audit.wines[k].id \notin DOMAIN audit.data
    /\ Ids(wines) = DOMAIN audit.data

\* the injections of 1..n into itself
Perms(n) == {p \in [1..n -> 1..n] : \A i, j \in 1..n : p[i] = p[j] => i = j}

\* out is input reordered so that key descends and elements with equal key
\* keep the order they have in input
StableDescending(out, input, key) ==
    /\ Len(out) = Len(input)
    /\ \E p \in Perms(Len(input)) :
          /\ \A i \in DOMAIN out : out[i] = input[p[i]]
          /\ \A i, j \in DOMAIN out :
                i < j => \/ out[i][key] > out[j][key]
                         \/ out[i][key] = out[j][key] /\ p[i] < p[j]

\* C9: after mergeWines this.wines is the merged map's values, after the
\* wines callback it is the snapshot's values, after the archive callback
\* this.archive is the snapshot's values, each ordered by its timestamp
\* descending with equal timestamps in input order
SortedAfterReconcile ==
    /\ Merging =>
          StableDescending(wines, Merged(audit.wines, ObjectValues(audit.data)),
                           "addedAt")
    /\ Replacing =>
          StableDescending(wines, ObjectValues(audit.data), "addedAt")
    /\ (rev = "firebaseOnly" /\ audit.op = "archiveValue" /\ ~audit.gate) =>
          StableDescending(archive, ObjectValues(audit.data), "archivedAt")

\* C9, reached: the sort moved a record and kept two records with the same
\* addedAt in their order
SortedAfterReconcileSeen ==
    /\ Replacing
    /\ wines # ObjectValues(audit.data)
    /\ \E i, j \in DOMAIN wines :
          /\ i < j
          /\ wines[i].addedAt = wines[j].addedAt
          /\ wines[i].id < wines[j].id

\* C10: when confirmArchive on record R has run to its end with nothing
\* else in between, this.wines is what it was without the records of R's
\* id, and this.archive is what it was plus one record: R's fields with the
\* dialog's rating, rebuy and notes and the time of the call
ArchivedOnce ==
    (audit.on /\ audit.op = "confirmArchive" /\ audit.done) =>
        LET R == audit.wine
            Other(w) == w.id # R.id
        IN  /\ R.id \notin Ids(wines)
            /\ wines = SelectSeq(audit.wines, Other)
            /\ Len(archive) = Len(audit.archive) + 1
            /\ \E k \in DOMAIN archive :
                  /\ RemoveAt(archive, k) = audit.archive
                  /\ DOMAIN archive[k] =
                        DOMAIN R \cup {"rating", "rebuy", "archiveNotes", "archivedAt"}
                  /\ \A f \in DOMAIN R : archive[k][f] = R[f]
                  /\ archive[k].rating = audit.rating
                  /\ archive[k].rebuy = audit.rebuy
                  /\ archive[k].archiveNotes = audit.notes
                  /\ archive[k].archivedAt = audit.at

\* C10, reached: a rated record was archived through the remote store next
\* to another active record and two older archive records
ArchivedOnceSeen ==
    /\ audit.on
    /\ audit.op = "confirmArchive"
    /\ audit.done
    /\ RemoteReady
    /\ audit.rating \in Stars
    /\ Len(audit.archive) = 2
    /\ Len(wines) = 1
    /\ \E i \in DOMAIN tasks : tasks[i].pc = "timer"
    /\ audit.wine.id \in DOMAIN remoteArchive
    /\ audit.wine.id \notin DOMAIN remoteWines

\* a restoreWineFromArchive on archive record A has run alone to its end
Restored == audit.on /\ audit.op = "restore" /\ audit.done

\* C11: after restoreWineFromArchive on archive record A, this.wines is what
\* it was plus one new record whose id is neither A's nor one of the active
\* list and whose addedAt is the time of the call, and no record of
\* this.archive carries A's id
RestoredOnce ==
    Restored =>
        /\ Len(wines) = Len(audit.wines) + 1
        /\ Tail(wines) = audit.wines
        /\ Head(wines).id # audit.record.id
        /\ Head(wines).id \notin Ids(audit.wines)
        /\ Head(wines).addedAt >= audit.at
        /\ audit.record.id \notin Ids(archive)

\* C12: a record that starts with a quantity of at least 1 still has a
\* quantity of at least 1 after any sequence of updateDetailQuantity(+1) and
\* updateDetailQuantity(-1)
QuantityAtLeastOne == \A i \in DOMAIN wines : wines[i].quantity >= 1

\* updateDetailQuantity(-1) was called on a record whose quantity was 1
DecrementAtOne ==
    /\ audit.op = "updateDetailQuantity"
    /\ audit.change = -1
    /\ Found(audit.wines, currentWineId)
    /\ Find(audit.wines, currentWineId).quantity = 1

QuantityAtLeastOneSeen == DecrementAtOne /\ QuantityAtLeastOne

\* C13: updateDetailQuantity(-1) on a record whose quantity is 1 changes
\* nothing: the active list and the archive are what they were, and no
\* localStorage.setItem and no remote write is issued
DecrementAtOneIsNoOp ==
    DecrementAtOne =>
        /\ wines = audit.wines
        /\ Find(wines, currentWineId).quantity = 1
        /\ archive = audit.archive
        /\ calls = << >>
        /\ tasks = audit.tasks
        /\ localStorage = audit.localStorage
        /\ remoteWines = audit.remoteWines

DecrementAtOneIsNoOpSeen ==
    DecrementAtOne /\ rev = "firebaseOnly" /\ RemoteReady /\ calls = << >>

\* C14: no two records of this.wines share an id
UniqueIds == \A i, j \in DOMAIN wines : wines[i].id = wines[j].id => i = j

\* C15: once this.userId is no longer User, no listener is attached on
\* User's wines and archive paths, and no callback of such a listener runs
ListenersFollowIdentity ==
    /\ userId # User => ~listening
    /\ audit.op \in {"winesValue", "archiveValue"} => userId = User

\* C16: while nobody is signed in, this.wines and this.archive are empty
\* and this.firebaseEnabled is false
SignedOutStaysEmpty ==
    userId = NULL => wines = << >> /\ archive = << >> /\ ~firebaseEnabled

\* C17: deleteWineFromFirebase returns true exactly when its first read
\* found no record or its read after remove() found the record gone; it
\* returns false when a remote call failed or the read after remove() still
\* found the record
DeleteReturnsWhatItVerified ==
    \A i \in DOMAIN tasks :
        (tasks[i].op = "delete" /\ tasks[i].pc = "timer"
            /\ tasks[i].data.returned # "pending") =>
                (tasks[i].data.returned = "true"
                    <=> tasks[i].data.reread \in {"gone", "absent"})

\* the page was loaded right after a save
LoadedAfterSave == audit.op = "loadWines" /\ audit.afterSave

LoadFailsSoft ==
    (audit.op = "loadWines" /\ audit.stored.item \in {"absent", "corrupt"}) =>
        ~audit.threw /\ wines = << >>

\* C20: saveToLocalStorage first writes the list as it is; after a quota
\* error it makes exactly one more attempt, with every image null and all
\* else unchanged; after any other outcome it makes no more attempt; it
\* never throws, and this.wines is left as it was
SaveRetriesOnce ==
    audit.op = "saveToLocalStorage" =>
        LET a == audit.attempts
        IN  /\ a[1] = JSONStringify(audit.wines)
            /\ storage \in {"quota", "full"} =>
                  /\ Len(a) = 2
                  /\ JSONParse(a[2])
                        = [i \in DOMAIN audit.wines |->
                              [audit.wines[i] EXCEPT !.image = NULL]]
            /\ storage \in {"ok", "error"} => Len(a) = 1
            /\ localStorage = CASE storage = "ok"    -> a[1]
                                [] storage = "quota" -> a[2]
                                [] OTHER             -> audit.stored
            /\ ~audit.threw
            /\ wines = audit.wines

SaveRetriesOnceSeen ==
    /\ audit.op = "saveToLocalStorage"
    /\ storage = "full"
    /\ Len(audit.attempts) = 2
    /\ \E i \in DOMAIN wines : wines[i].image # NULL

\* handleFormSubmit ran in edit mode on a record of this.wines
Edited ==
    /\ audit.op = "handleFormSubmit"
    /\ audit.editMode
    /\ Found(audit.wines, audit.id)

\* C21: an edit of the active record with id i leaves the length of
\* this.wines, the id at every position, the addedAt of every record and
\* every record other than i as they were
EditReplacesInPlace ==
    Edited =>
        /\ Len(wines) = Len(audit.wines)
        /\ \A k \in DOMAIN wines :
              /\ wines[k].id = audit.wines[k].id
              /\ wines[k].addedAt = audit.wines[k].addedAt
              /\ k # FindIndex(audit.wines, audit.id) => wines[k] = audit.wines[k]

EditReplacesInPlaceSeen ==
    /\ Edited
    /\ Len(wines) = 2
    /\ FindIndex(audit.wines, audit.id) = 2
    /\ wines[2].name # audit.wines[2].name
    /\ wines[1].addedAt # wines[2].addedAt

\* the remote writes a local mutation of the union-merge revision starts
RemoteWriteCalls == {"wines.set", "wines.remove"}

\* a handler of the union-merge revision changed this.wines in the last step
Mutated ==
    /\ rev = "unionMerge"
    /\ audit.op \in {"handleFormSubmit", "updateDetailQuantity", "deleteCurrentWine"}
    /\ wines # audit.wines

\* C22: in the union-merge revision a local mutation first changes
\* this.wines, then calls localStorage.setItem with the changed list, and
\* only then starts the remote write, which it starts only when
\* firebaseEnabled is true
LocalBeforeRemote ==
    Mutated =>
        /\ \E k \in DOMAIN calls :
              /\ calls[k].fn = "localStorage.setItem"
              /\ \A j \in DOMAIN calls :
                    calls[j].fn \in RemoteWriteCalls => k < j
        /\ storage = "ok" => JSONParse(localStorage) = wines
        /\ \A j \in DOMAIN calls :
              calls[j].fn \in RemoteWriteCalls => firebaseEnabled
        /\ \A i \in DOMAIN tasks :
              (tasks[i].op = "save" /\ i = Len(tasks)) =>
                  tasks[i].data = WinesObject(wines)

LocalBeforeRemoteSeen ==
    /\ Mutated
    /\ audit.op = "updateDetailQuantity"
    /\ firebaseEnabled
    /\ \E j \in DOMAIN calls : calls[j].fn = "wines.set"

\* a skipArchiveAndDelete on the record of id X has run alone to its end
DeletedWithoutArchiving ==
    audit.on /\ audit.op = "skipArchiveAndDelete" /\ audit.done

\* C23: after delete without archiving of record X, this.wines is what it
\* was without the records of X's id, in the same order and with the same
\* fields, and this.archive is what it was
DeleteRemovesOnlyX ==
    DeletedWithoutArchiving =>
        LET Kept(w) == w.id # audit.id
        IN  /\ wines = SelectSeq(audit.wines, Kept)
            /\ archive = audit.archive

DeleteRemovesOnlyXSeen ==
    /\ DeletedWithoutArchiving
    /\ RemoteReady
    /\ Len(audit.wines) = 2
    /\ audit.wines[1].id = audit.id
    /\ Len(wines) = 1
    /\ archive # << >>

\* deleteFromArchiveConfirm was called in the last step
ArchiveDeleteAsked == audit.op = "deleteFromArchiveConfirm"

\* C24: when the user confirms, deleteFromArchiveConfirm removes the records
\* of currentArchiveId from this.archive and leaves this.wines as it was;
\* when the user declines, this.archive and this.wines are as they were and
\* no remote call is made
ArchiveDeleteOnlyWhenConfirmed ==
    ArchiveDeleteAsked =>
        LET Kept(w) == w.id # audit.id
        IN  /\ wines = audit.wines
            /\ audit.confirmed =>
                  /\ archive = SelectSeq(audit.archive, Kept)
                  /\ audit.id \notin Ids(archive)
            /\ ~audit.confirmed =>
                  /\ archive = audit.archive
                  /\ calls = << >>
                  /\ tasks = audit.tasks

ArchiveDeleteOnlyWhenConfirmedSeen ==
    /\ ArchiveDeleteAsked
    /\ audit.confirmed
    /\ Len(audit.archive) = 2
    /\ Len(archive) = 1
    /\ wines # << >>
    /\ \E i \in DOMAIN calls : calls[i].fn = "archive.remove"

\* updateStats: this.wines.reduce((sum, wine) => sum + wine.quantity, 0)
RECURSIVE TotalBottles(_)
TotalBottles(list) ==
    IF list = << >>
    THEN 0
    ELSE Head(list).quantity + TotalBottles(Tail(list))

\* the add form was submitted with quantity 1
Added == audit.op = "handleFormSubmit" /\ ~audit.editMode

\* C25: adding a record with quantity 1 raises the active length and the
\* bottle count by 1; archiving it with rating r and rebuy b lowers the active
\* length by 1, raises the archive length by 1 and the new archive entry
\* carries r and b; restoring it raises the active length by 1 with an id
\* other than the one the record got at add, and lowers the archive length
\* by 1
AddArchiveRestore ==
    /\ Added =>
          /\ Len(wines) = Len(audit.wines) + 1
          /\ TotalBottles(wines) = TotalBottles(audit.wines) + 1
    /\ (audit.on /\ audit.op = "confirmArchive" /\ audit.done) =>
          /\ Len(wines) = Len(audit.wines) - 1
          /\ Len(archive) = Len(audit.archive) + 1
          /\ Head(archive).rating = audit.rating
          /\ Head(archive).rebuy = audit.rebuy
    /\ Restored =>
          /\ Len(wines) = Len(audit.wines) + 1
          /\ Head(wines).id # audit.record.id
          /\ Len(archive) = Len(audit.archive) - 1

\* the vision call of an analyzeWineLabel has just failed
VisionFailed == audit.op = "visionSettled" /\ audit.failed

\* every form generateDemoWineData and populateForm can produce
DemoForms == {PopulateForm(demo) : demo \in DemoWines}

DeleteInvoked == audit.op \in {"skipArchiveAndDelete", "skipArchiveAndDeleteGated"}

\* C27: every invocation of deleteCurrentWine is eventually followed by a
\* state in which syncInProgress is false again
FlagEventuallyClears == DeleteInvoked ~> ~syncInProgress

\* no write in flight, no timer pending, no snapshot undelivered, flag false
Quiescent == tasks = << >> /\ winesEvents = << >> /\ ~syncInProgress

\* this.wines holds exactly the records of the remote wines path
InSync ==
    /\ Len(wines) = Cardinality(DOMAIN remoteWines)
    /\ \A i \in DOMAIN wines :
          /\ wines[i].id \in DOMAIN remoteWines
          /\ remoteWines[wines[i].id] = wines[i]

\* C28: once the remote collection stops changing, no write is in flight and
\* syncInProgress is false, this.wines eventually equals the remote
\* collection, also when the last remote change reached the listener while
\* syncInProgress was true
Converges == <>[]Quiescent => <>[]InSync

\* C29: a record the second client has written to the remote wines path is
\* never removed from it by an add or a quantity change of this client
NoLostUpdate ==
    [][\A id \in DOMAIN remoteWines :
          remoteWines[id].name \in RemoteNames => id \in DOMAIN remoteWines']_vars

\* no snapshot is on its way, no push is in flight, and this.wines and the
\* remote wines path hold the same ids
EchoAtRest ==
    /\ winesEvents = << >>
    /\ tasks = << >>
    /\ Ids(wines) = DOMAIN remoteWines

\* C30: left alone, the cycle of snapshot, mergeWines, pushWineToFirebase and
\* fanned-back snapshot comes to rest after finitely many snapshots, with the
\* same ids on both sides
EchoComesToRest == <>[]EchoAtRest

\* deleteCurrentWine has run on this.currentWineId and the remote collection
\* no longer holds that record
RemovedRemotely == modal = "none" /\ currentWineId \notin DOMAIN remoteWines

\* C31: once deleteCurrentWine has removed X locally and the remote removal
\* has completed, X is in neither this.wines nor the remote collection, in
\* that state and in the next one
DeleteIsPermanent ==
    [][RemovedRemotely =>
          /\ currentWineId \notin Ids(wines)
          /\ currentWineId \notin Ids(wines')
          /\ currentWineId \notin DOMAIN remoteWines']_vars

\* C32: after confirmArchive has run to its end with the remote store in
\* use, the archived record is in this.archive and in the remote archive
ArchiveKeepsRecord ==
    (audit.on /\ audit.op = "confirmArchive" /\ audit.done /\ RemoteReady) =>
        /\ audit.wine.id \in Ids(archive)
        /\ audit.wine.id \in DOMAIN remoteArchive

\* C33: this.archive holds at most one record per id
ArchiveIdsUnique == Cardinality(Ids(archive)) = Len(archive)


(***************************************************************************)
(* The identity fields of the Firebase-only class.                         *)
(***************************************************************************)
\* C34: whenever firebaseEnabled is true, userId is not null and db is not
\* null, after any sequence of sign-in events, sign-out events and signOut()
\* calls
EnabledImpliesIdentity == firebaseEnabled => (userId # NULL /\ db # NULL)

\* signed in as User while a signOut() call is still awaiting
EnabledImpliesIdentitySeen ==
    /\ firebaseEnabled
    /\ userId = User
    /\ \E i \in DOMAIN tasks : tasks[i].op = "signOut"


(***************************************************************************)
(* The callbacks attached by setupFirebaseListener.                        *)
(***************************************************************************)
\* C35: after every sign-in event for User, first or repeated, exactly one
\* callback is attached on User's wines path and exactly one on the archive
\* path, so a change of a path calls one callback
OneListenerPerPath ==
    [][(AuthSignedIn \/ AuthSignedInAgain) =>
          (attached'.wines = 1 /\ attached'.archive = 1)]_vars

\* the sign-in callback has run for User while its callbacks were attached
OneListenerPerPathSeen ==
    /\ audit.op = "signedInAgain"
    /\ audit.before = [wines |-> 1, archive |-> 1]
    /\ attached = [wines |-> 1, archive |-> 1]


(***************************************************************************)
(* The choices of the archive dialog.                                      *)
(***************************************************************************)
\* C36: the archive dialog opens with rating 0 and rebuy absent; the two
\* fields change only by that reset or by a star or rebuy button of the open
\* dialog; the record confirmArchive adds carries the two fields as they
\* are, a rating in 0..5 and a rebuy of yes, maybe, no or absent
StoresChoicesOfThisDialog ==
    [][/\ (modal # "archive" /\ modal' = "archive") =>
              (archiveRating' = 0 /\ archiveRebuy' = NULL)
       /\ (archiveRating' # archiveRating /\ modal = "archive") =>
              (modal' = "archive" /\ archiveRating' \in StarValues)
       /\ (archiveRebuy' # archiveRebuy /\ modal = "archive") =>
              (modal' = "archive" /\ archiveRebuy' \in RebuyValues)
       /\ (audit'.on /\ audit'.op = "confirmArchive" /\ archive' # archive
              /\ Len(tasks') > Len(tasks)) =>
              /\ Head(archive').id = currentWineId
              /\ Head(archive').rating = archiveRating
              /\ Head(archive').rebuy = archiveRebuy
              /\ Head(archive').rating \in 0..5
              /\ Head(archive').rebuy \in RebuyValues \cup {NULL}]_vars

\* a record archived with five stars and "maybe", then the next record
\* archived from a dialog in which nothing was chosen
StoresChoicesOfThisDialogSeen ==
    /\ audit.on
    /\ audit.op = "confirmArchive"
    /\ Len(archive) = 2
    /\ archive[2].rating = 5
    /\ archive[2].rebuy = "maybe"
    /\ archive[1].rating = 0
    /\ archive[1].rebuy = NULL


(***************************************************************************)
(* The quantity stored by the form.                                        *)
(***************************************************************************)
\* handleFormSubmit has just stored a record
FormStored ==
    /\ audit.op = "handleFormSubmit"
    /\ Found(wines, IF audit.editMode THEN audit.id ELSE audit.at)

StoredByForm == Find(wines, IF audit.editMode THEN audit.id ELSE audit.at)

\* C37: a record created or edited through handleFormSubmit has a quantity
\* of at least 1, whatever the quantity field holds
FormQuantityAtLeastOne == FormStored => StoredByForm.quantity >= 1


(***************************************************************************)
(* Local mutations while firebaseEnabled is false.                         *)
(***************************************************************************)
\* calls that reach the remote store
RemoteFns ==
    {"wines.set", "wines.once", "wines.remove", "wine.set", "archive.set",
     "archive.remove"}

\* what the handler that ran in the last step has done to the two lists
MutationTookEffect ==
    CASE audit.op = "handleFormSubmit" /\ ~audit.editMode ->
            Len(wines) = Len(audit.wines) + 1 /\ Head(wines).id = audit.at
      [] audit.op = "handleFormSubmit" /\ audit.editMode ->
            Found(wines, audit.id) /\ Find(wines, audit.id).name \in EditNames
      [] audit.op = "updateDetailQuantity" /\ Found(audit.wines, currentWineId)
           /\ Find(audit.wines, currentWineId).quantity + audit.change >= 1 ->
            Find(wines, currentWineId).quantity =
                Find(audit.wines, currentWineId).quantity + audit.change
      [] audit.op \in {"skipArchiveAndDelete", "deleteCurrentWine"} ->
            audit.id \notin Ids(wines)
      [] audit.op = "confirmArchive" ->
            audit.wine.id \in Ids(archive) /\ audit.wine.id \notin Ids(wines)
      [] audit.op = "restore" ->
            /\ audit.record.id \notin Ids(archive)
            /\ Len(wines) = Len(audit.wines) + 1
            /\ Head(wines).name = audit.record.name
      [] audit.op = "deleteFromArchiveConfirm" /\ audit.confirmed ->
            audit.id \notin Ids(archive)
      [] OTHER -> TRUE

\* C38: while firebaseEnabled is false, a local mutation (add, edit,
\* quantity change, delete, archive, restore, permanent archive delete)
\* makes no remote read, write or delete and leaves no remote call pending,
\* and its change of this.wines or this.archive is made
NoRemoteWhileDisabled ==
    ~firebaseEnabled =>
        /\ \A i \in DOMAIN calls : calls[i].fn \notin RemoteFns
        /\ \A i \in DOMAIN tasks : tasks[i].pc = "timer"
        /\ remoteWines = EmptyMap
        /\ remoteArchive = EmptyMap
        /\ MutationTookEffect

\* a record archived while nobody is signed in
NoRemoteWhileDisabledSeen ==
    /\ ~firebaseEnabled
    /\ audit.op = "confirmArchive"
    /\ audit.wine.id \in Ids(archive)
    /\ audit.wine.id \notin Ids(wines)
    /\ calls = <<Render>>

=============================================================================
